---- MODULE Spec2Model ----
(***************************************************************************)
(* Paper-trading ledger of the polymarket agent (agent/src/paper/          *)
(* portfolio.rs), the executor that opens trades through it                *)
(* (agent/src/team/executor.rs), the Strategist's exit plan                *)
(* (agent/src/team/strategist.rs) and the cycle loop of agent/src/main.rs. *)
(*                                                                         *)
(* rust_decimal values are held as integers in fixed units:                *)
(*   prices         in units of 1/PRICE_ONE   (0.001)                      *)
(*   share counts   in units of 1/SHARE_ONE   (0.0001, the round_dp(4))    *)
(*   money          in units of 1/MONEY_ONE   (price unit * share unit)    *)
(*   rates, pcts    in units of 1/PCT_ONE     (0.001)                      *)
(*   TP/SL levels   in units of 1/LEVEL_ONE   (price unit * 1/BP_ONE)      *)
(* A product or quotient that is no whole number of units is rounded       *)
(* half-even to the unit; shares are rounded as the code rounds them.      *)
(***************************************************************************)
EXTENDS Integers, Sequences, FiniteSets, TLC

PRICE_ONE == 10 * 10 * 10
SHARE_ONE == 10 * 10 * 10 * 10
MONEY_ONE == PRICE_ONE * SHARE_ONE
PCT_ONE == 10 * 10 * 10
BP_ONE == 10 * 10 * 10 * 10
LEVEL_ONE == PRICE_ONE * BP_ONE

Dollars(n) == n * MONEY_ONE
Cents(n) == n * (MONEY_ONE \div 100)

None == << >>
Some(x) == << x >>
IsSome(o) == o # << >>
Unwrap(o) == o[1]

Abs(x) == IF x < 0 THEN -x ELSE x
Min(a, b) == IF a < b THEN a ELSE b
Max(a, b) == IF a > b THEN a ELSE b

\* a / b rounded to the nearest integer, ties to even (b > 0)
RoundDiv(a, b) ==
  LET q == a \div b
      r == a % b
  IN  IF 2 * r < b THEN q
      ELSE IF 2 * r > b THEN q + 1
      ELSE IF q % 2 = 0 THEN q ELSE q + 1

\* a * b / c rounded half-even, split so that no intermediate leaves 32 bits
MulDiv(a, b, c) == (a \div c) * b + RoundDiv((a % c) * b, c)

\* x * pct for a rate in PCT units
MulPct(x, pct) == MulDiv(x, pct, PCT_ONE)

\* the least integer >= a * b / c  (a >= 0, b >= 0, c > 0)
MulDivCeil(a, b, c) ==
  LET p == (a % c) * b
  IN  (a \div c) * b + (p \div c) + (IF p % c = 0 THEN 0 ELSE 1)

\* Decimal::round_dp(4) of a money amount
RoundDp4(m) == RoundDiv(m, MONEY_ONE \div SHARE_ONE) * (MONEY_ONE \div SHARE_ONE)

(***************************************************************************)
(* SimConfig                                                               *)
(***************************************************************************)
SimDisabled ==
  [ name |-> "disabled",
    fees_enabled |-> FALSE, slippage_enabled |-> FALSE,
    fills_enabled |-> FALSE, impact_enabled |-> FALSE,
    gas_fee_min |-> 0, gas_fee_max |-> 0,
    platform_fee_pct |-> 0, taker_fee_pct |-> 0,
    base_slippage_pct |-> 0, size_penalty_pct |-> 0, size_penalty_threshold |-> 0,
    reject_probability |-> 0, partial_fill_probability |-> 0,
    min_liquidity_volume |-> 0,
    impact_threshold |-> 0, impact_per_dollar_pct |-> 0 ]

\* SimConfig::from_config with every effect enabled: gas 0.02 (min = max),
\* platform fee 2%, taker fee 2%, base slippage 5%, size penalty 0.5%/$ above
\* $30, rejection 5%, partial fill 15%, impact 0.5%/$ above $10
SimFull ==
  [ name |-> "full",
    fees_enabled |-> TRUE, slippage_enabled |-> TRUE,
    fills_enabled |-> TRUE, impact_enabled |-> TRUE,
    gas_fee_min |-> Cents(2), gas_fee_max |-> Cents(2),
    platform_fee_pct |-> 20, taker_fee_pct |-> 20,
    base_slippage_pct |-> 50, size_penalty_pct |-> 5,
    size_penalty_threshold |-> Dollars(30),
    reject_probability |-> 50, partial_fill_probability |-> 150,
    min_liquidity_volume |-> Dollars(10),
    impact_threshold |-> Dollars(10), impact_per_dollar_pct |-> 5 ]

SimConfigs == { SimDisabled, SimFull }

\* random_gas_fee: min when min >= max, else a draw in [min, max] kept to 4 places
GasDraws(min, max) == IF min >= max THEN { min } ELSE { min, max }

\* rate per dollar * excess dollars, as a rate in PCT units
PerDollar(rate, excess) == MulDiv(excess, rate, MONEY_ONE)

calculate_slippage_pct(sim, bet_size, spread) ==
  LET base == IF spread > 0
              THEN Min(MulDiv(sim.base_slippage_pct, spread, PRICE_ONE \div 20),
                       3 * sim.base_slippage_pct)
              ELSE sim.base_slippage_pct
  IN  IF bet_size > sim.size_penalty_threshold
      THEN base + PerDollar(sim.size_penalty_pct, bet_size - sim.size_penalty_threshold)
      ELSE base

calculate_impact_pct(sim, bet_size) ==
  IF bet_size <= sim.impact_threshold THEN 0
  ELSE PerDollar(sim.impact_per_dollar_pct, bet_size - sim.impact_threshold)

\* the fill percentages a partial fill is drawn from (50%..90%)
FillPcts == { 700 }

\* simulate_fill: the outcomes the two rolls in [0,1) can produce
FillOutcomes(sim, volume) ==
  LET factor == IF volume < sim.min_liquidity_volume /\ volume > 0 THEN 2 ELSE 1
      pp == sim.partial_fill_probability * factor
  IN  (IF sim.reject_probability > 0 THEN { [kind |-> "reject", pct |-> 0] } ELSE {})
      \cup (IF sim.reject_probability < PCT_ONE /\ pp > 0
            THEN { [kind |-> "partial", pct |-> p] : p \in FillPcts } ELSE {})
      \cup (IF sim.reject_probability < PCT_ONE /\ pp < PCT_ONE
            THEN { [kind |-> "full", pct |-> PCT_ONE] } ELSE {})

simulate_fill(bet_size, fill) ==
  IF fill.kind = "reject" THEN None
  ELSE IF fill.kind = "partial" THEN Some(RoundDp4(MulPct(bet_size, fill.pct)))
  ELSE Some(bet_size)

(***************************************************************************)
(* The ledger (PortfolioInner), the clock and the last call's result       *)
(***************************************************************************)
VARIABLES balance, initial_balance, trades, open_trades, win_count, loss_count,
          consecutive_losses, peak_balance, max_drawdown, sim, cfg, now, last, known,
          asked, main, team, mutex

ledger == << balance, initial_balance, trades, open_trades, win_count, loss_count,
             consecutive_losses, peak_balance, max_drawdown >>
vars == << balance, initial_balance, trades, open_trades, win_count, loss_count,
           consecutive_losses, peak_balance, max_drawdown, sim, cfg, now, last, known,
           asked, main, team, mutex >>

\* raw price of the traded side; None for Direction::Skip
SidePrice(direction, yes_price) ==
  IF direction = "Yes" THEN Some(yes_price)
  ELSE IF direction = "No" THEN Some(PRICE_ONE - yes_price)
  ELSE None

\* the Trade built at portfolio.rs:291-329; seq is the record's place in the
\* history (trades.push), id the 8 characters kept of the uuid
NewTrade(id, seq, market_id, direction, adjusted_price, raw_price, fair_value, bet_size, shares, balance_after, gas_fee, slippage_cost, maker_taker) ==
  [ id |-> id, seq |-> seq, market_id |-> market_id, direction |-> direction,
    entry_price |-> adjusted_price, fair_value |-> fair_value,
    bet_size |-> bet_size, shares |-> shares, status |-> "Open",
    exit_price |-> None, pnl |-> 0, balance_after |-> balance_after,
    trade_mode |-> None, take_profit |-> None, stop_loss |-> None,
    max_hold_until |-> None, judge_fair_value |-> None, judge_confidence |-> None,
    exit_reason |-> None, raw_entry_price |-> Some(raw_price), raw_exit_price |-> None,
    entry_gas_fee |-> gas_fee, exit_gas_fee |-> 0,
    entry_slippage |-> slippage_cost, exit_slippage |-> 0,
    platform_fee |-> 0, maker_taker_fee |-> maker_taker ]

\* the entry price after slippage and impact, capped at 0.99
AdjustedPrice(raw_price, adjustment) ==
  Min(RoundDiv(raw_price * (PCT_ONE + adjustment), PCT_ONE), 99 * (PRICE_ONE \div 100))

\* a shrink that never happens
KeepBet(bal, bet_size, gas_fee, maker_taker) == bet_size

\* the stake left when stake + gas + maker/taker exceeds the balance
ShrinkBet(bal, bet_size, gas_fee, maker_taker) ==
  IF bet_size + gas_fee + maker_taker > bal
  THEN Max(bal - gas_fee - maker_taker, 0)
  ELSE bet_size

\* the stake after the clamp to the balance
ClampBet(bal, bet_size) == IF bet_size > bal THEN bal ELSE bet_size

\* Portfolio::execute_trade on a ledger holding bal: None, or Some of the trade
\* opened; fill and gas are the draws of simulate_fill and random_gas_fee
execute_trade(bal, id, seq, market_id, direction, market_yes_price, fair_value, bet_size_in, s, market_volume, fill, gas) ==
  LET b1 == ClampBet(bal, bet_size_in)
      filled == IF s.fills_enabled THEN simulate_fill(b1, fill) ELSE Some(b1)
      raw == SidePrice(direction, market_yes_price)
  IN  IF b1 <= 0 THEN None
      ELSE IF ~IsSome(filled) THEN None
      ELSE IF ~IsSome(raw) THEN None
      ELSE IF Unwrap(raw) <= 0 THEN None
      ELSE
        LET b2 == Unwrap(filled)
            raw_price == Unwrap(raw)
            impact_pct == IF s.impact_enabled THEN calculate_impact_pct(s, b2) ELSE 0
            spread == Abs(market_yes_price - (PRICE_ONE - market_yes_price))
            slippage_pct == IF s.slippage_enabled
                            THEN calculate_slippage_pct(s, b2, spread) ELSE 0
            adjusted_price == AdjustedPrice(raw_price, slippage_pct + impact_pct)
            entry_slippage_cost == MulDiv(b2, Abs(adjusted_price - raw_price), adjusted_price)
            gas_fee == IF s.fees_enabled THEN gas ELSE 0
            maker_taker == IF s.fees_enabled THEN MulPct(b2, s.taker_fee_pct) ELSE 0
            b3 == ShrinkBet(bal, b2, gas_fee, maker_taker)
        IN  IF b3 <= 0 THEN None
            ELSE Some(NewTrade(id, seq, market_id, direction, adjusted_price, raw_price,
                               fair_value, b3, RoundDiv(b3, adjusted_price),
                               bal - b3 - gas_fee - maker_taker,
                               gas_fee, entry_slippage_cost, maker_taker))

\* why execute_trade returns no trade, in the order of its early returns
\* (portfolio.rs:211, 218, 234, 237, 284); "none" when it opens the trade
Refusal(bal, direction, market_yes_price, bet_size_in, s, fill, gas) ==
  LET b1 == ClampBet(bal, bet_size_in)
      filled == IF s.fills_enabled THEN simulate_fill(b1, fill) ELSE Some(b1)
      raw == SidePrice(direction, market_yes_price)
  IN  IF b1 <= 0 THEN "size"
      ELSE IF ~IsSome(filled) THEN "rejected"
      ELSE IF ~IsSome(raw) THEN "skip"
      ELSE IF Unwrap(raw) <= 0 THEN "price"
      ELSE
        LET b2 == Unwrap(filled)
            gas_fee == IF s.fees_enabled THEN gas ELSE 0
            maker_taker == IF s.fees_enabled THEN MulPct(b2, s.taker_fee_pct) ELSE 0
        IN  IF ShrinkBet(bal, b2, gas_fee, maker_taker) <= 0 THEN "fees" ELSE "none"

\* a ledger that charges the gas of an order it then refuses
DebitRefused(bal, r) ==
  IF IsSome(r) THEN Unwrap(r).balance_after ELSE Max(bal - Cents(2), 0)

\* the balance after the call: debited only where the trade is pushed
\* (portfolio.rs:331), every early return comes before it
Debit(bal, r) ==
  IF IsSome(r) THEN Unwrap(r).balance_after ELSE bal

(***************************************************************************)
(* Exit rules and closing (resolve_with_prices, close_all_positions)       *)
(***************************************************************************)
\* a snapshot maps each market id to its yes price, or to ABSENT
ABSENT == 0 - 1

\* 10 * u < -3 * bet, i.e. unrealized pnl below -30% of the stake; the
\* stake is split into tens and units so that no product leaves 32 bits
BelowMinus30Pct(u, bet_size) == u <= (0 - 3 * (bet_size \div 10)) - ((3 * (bet_size % 10)) \div 10) - 1

\* a record without a stored mode evaluated as CONVICTION
ModeConvictionDefault(trade) ==
  IF IsSome(trade.trade_mode) THEN Unwrap(trade.trade_mode) ELSE "CONVICTION"

\* the mode an open trade is evaluated under (portfolio.rs:378)
ModeOf(trade) == IF IsSome(trade.trade_mode) THEN Unwrap(trade.trade_mode) ELSE "SWING"

TakeProfitHit(trade, current_price) ==
  IsSome(trade.take_profit) /\ current_price * BP_ONE >= Unwrap(trade.take_profit)

StopLossHit(trade, current_price) ==
  IsSome(trade.stop_loss) /\ current_price * BP_ONE <= Unwrap(trade.stop_loss)

MaxHoldPassed(trade, clock) ==
  IsSome(trade.max_hold_until) /\ clock > Unwrap(trade.max_hold_until)

\* captured = (current - entry) / (fair - entry) >= 0.60, fair - entry # 0
EdgeCapturedHit(trade, current_price) ==
  /\ IsSome(trade.judge_fair_value)
  /\ LET total_edge == Unwrap(trade.judge_fair_value) - trade.entry_price
         moved == current_price - trade.entry_price
     IN  \/ total_edge > 0 /\ 10 * moved >= 6 * total_edge
         \/ total_edge < 0 /\ 10 * moved <= 6 * total_edge

\* a safety valve that already opens at a loss of exactly 30%
SafetyValveAtThreshold(trade, current_price) ==
  LET unrealized_pnl == (current_price - trade.entry_price) * trade.shares
      conf == IF IsSome(trade.judge_confidence) THEN Unwrap(trade.judge_confidence)
              ELSE PCT_ONE \div 2
  IN  /\ trade.bet_size > 0
      /\ 10 * unrealized_pnl <= 0 - 3 * trade.bet_size
      /\ conf < 7 * (PCT_ONE \div 10)

SafetyValveHit(trade, current_price) ==
  LET unrealized_pnl == (current_price - trade.entry_price) * trade.shares
      conf == IF IsSome(trade.judge_confidence) THEN Unwrap(trade.judge_confidence)
              ELSE PCT_ONE \div 2
  IN  /\ trade.bet_size > 0
      /\ BelowMinus30Pct(unrealized_pnl, trade.bet_size)
      /\ conf < 7 * (PCT_ONE \div 10)

\* a Scalp rule that looks at the stop-loss first
ScalpStopFirst(trade, current_price, clock) ==
  IF StopLossHit(trade, current_price) THEN Some("StopLoss")
  ELSE IF TakeProfitHit(trade, current_price) THEN Some("TakeProfit")
  ELSE IF MaxHoldPassed(trade, clock) THEN Some("TimeExpiry")
  ELSE None

\* the SCALP branch (portfolio.rs:381-401)
ScalpExit(trade, current_price, clock) ==
  IF TakeProfitHit(trade, current_price) THEN Some("TakeProfit")
  ELSE IF StopLossHit(trade, current_price) THEN Some("StopLoss")
  ELSE IF MaxHoldPassed(trade, clock) THEN Some("TimeExpiry")
  ELSE None

SwingExit(trade, current_price, clock) ==
  IF TakeProfitHit(trade, current_price) THEN Some("TakeProfit")
  ELSE IF EdgeCapturedHit(trade, current_price) THEN Some("EdgeCaptured")
  ELSE IF StopLossHit(trade, current_price) THEN Some("StopLoss")
  ELSE IF MaxHoldPassed(trade, clock) THEN Some("TimeExpiry")
  ELSE None

ConvictionExit(trade, current_price) ==
  IF SafetyValveHit(trade, current_price) THEN Some("SafetyValve") ELSE None

\* the legacy percentage rule for any other mode string
LegacyExit(trade, current_price, exit_tp_pct, exit_sl_pct) ==
  LET unrealized_pnl == (current_price - trade.entry_price) * trade.shares
      positive == trade.bet_size > 0
  IN  IF exit_tp_pct > 0
         /\ (IF positive
             THEN unrealized_pnl >= MulDivCeil(trade.bet_size, exit_tp_pct, PCT_ONE)
             ELSE 0 >= exit_tp_pct)
      THEN Some("TakeProfit")
      ELSE IF exit_sl_pct > 0
              /\ (IF positive
                  THEN 0 - unrealized_pnl >= MulDivCeil(trade.bet_size, exit_sl_pct, PCT_ONE)
                  ELSE 0 <= 0 - exit_sl_pct)
      THEN Some("StopLoss")
      ELSE None

\* the exit reason (or None) and the raw price the exit is taken at
ExitDecision(trade, snap, exit_tp_pct, exit_sl_pct, clock) ==
  IF snap[trade.market_id] = ABSENT
  THEN [ reason |-> Some("MarketResolved"), price |-> trade.entry_price ]
  ELSE
    LET current_price == Unwrap(SidePrice(trade.direction, snap[trade.market_id]))
        mode == ModeOf(trade)
    IN  [ price |-> current_price,
          reason |-> IF mode = "SCALP" THEN ScalpExit(trade, current_price, clock)
                     ELSE IF mode = "SWING" THEN SwingExit(trade, current_price, clock)
                     ELSE IF mode = "CONVICTION" THEN ConvictionExit(trade, current_price)
                     ELSE LegacyExit(trade, current_price, exit_tp_pct, exit_sl_pct) ]

\* the price a position is sold at: the raw price less exit slippage
ExitPrice(s, trade, current_price) ==
  LET exit_slippage_pct == IF s.slippage_enabled
                           THEN calculate_slippage_pct(s, trade.bet_size, 3 * (PRICE_ONE \div 100))
                           ELSE 0
  IN  RoundDiv(current_price * (PCT_ONE - exit_slippage_pct), PCT_ONE)

WonOrLost(gross_pnl) == IF gross_pnl > 0 THEN "Won" ELSE "Lost"

\* a pnl taken against the stake instead of entry price * shares
PnlOnStake(trade, actual_exit_price) == actual_exit_price * trade.shares - trade.bet_size

\* gross pnl of a position sold at actual_exit_price
GrossPnl(trade, actual_exit_price) == (actual_exit_price - trade.entry_price) * trade.shares

\* the closed record of a trade sold at current_price (portfolio.rs:465-515)
ClosedTrade(s, trade, reason, current_price, gas) ==
  LET actual_exit_price == ExitPrice(s, trade, current_price)
      gross_pnl == GrossPnl(trade, actual_exit_price)
      exit_value == Abs(actual_exit_price * trade.shares)
      exit_maker_taker == IF s.fees_enabled THEN MulPct(exit_value, s.taker_fee_pct) ELSE 0
  IN  [ trade EXCEPT
          !.raw_exit_price = Some(current_price),
          !.exit_slippage = Abs(current_price - actual_exit_price) * trade.shares,
          !.exit_gas_fee = IF s.fees_enabled THEN gas ELSE 0,
          !.platform_fee = IF s.fees_enabled /\ gross_pnl > 0
                           THEN MulPct(gross_pnl, s.platform_fee_pct) ELSE 0,
          !.maker_taker_fee = trade.maker_taker_fee + exit_maker_taker,
          !.exit_price = Some(actual_exit_price),
          !.pnl = gross_pnl,
          !.exit_reason = Some(reason),
          !.status = WonOrLost(gross_pnl) ]

\* the capital returned with no floor
ReturnUnfloored(open, closed) ==
  closed.bet_size + closed.pnl - closed.exit_gas_fee
    - (closed.maker_taker_fee - open.maker_taker_fee) - closed.platform_fee

\* the capital returned at a close: bet_size + gross_pnl - exit fees, floored at 0
ReturnAmount(open, closed) ==
  LET exit_maker_taker == closed.maker_taker_fee - open.maker_taker_fee
      return_amount == closed.bet_size + closed.pnl - closed.exit_gas_fee
                       - exit_maker_taker - closed.platform_fee
  IN  IF return_amount > 0 THEN return_amount ELSE 0

\* inner.trades.iter_mut().find(|t| t.id == trade.id): the first record with the id
FirstWithId(hist, id) ==
  IF \E i \in 1..Len(hist) : hist[i].id = id
  THEN CHOOSE i \in 1..Len(hist) :
         hist[i].id = id /\ \A j \in 1..(i - 1) : hist[j].id # id
  ELSE 0

StoreClosed(hist, trade) ==
  LET i == FirstWithId(hist, trade.id)
  IN  IF i = 0 THEN hist ELSE [ hist EXCEPT ![i] = trade ]

\* a streak that a break-even close resets
StreakResetOnBreakEven(streak, gross_pnl) == IF gross_pnl >= 0 THEN 0 ELSE streak + 1

\* the consecutive-loss streak after one close
StreakAfter(streak, gross_pnl) == IF gross_pnl > 0 THEN 0 ELSE streak + 1

\* a close that leaves the closed trade in the open set; the stake is
\* returned only while the history still shows the trade open
ApplyCloseKeepOpen(acc, open, closed) ==
  LET i == FirstWithId(acc.trades, closed.id)
      bal == IF i > 0 /\ acc.trades[i].status = "Open"
             THEN acc.balance + ReturnAmount(open, closed) ELSE acc.balance
      done == [ closed EXCEPT !.balance_after = bal ]
  IN  [ acc EXCEPT
          !.balance = bal,
          !.win_count = IF closed.pnl > 0 THEN @ + 1 ELSE @,
          !.loss_count = IF closed.pnl > 0 THEN @ ELSE @ + 1,
          !.consecutive_losses = StreakAfter(@, closed.pnl),
          !.trades = StoreClosed(@, done),
          !.out = Append(@, done),
          !.still_open = Append(@, open) ]

\* one closed trade applied to the running ledger state of a resolve or close-all
ApplyClose(acc, open, closed) ==
  LET bal == acc.balance + ReturnAmount(open, closed)
      done == [ closed EXCEPT !.balance_after = bal ]
  IN  [ acc EXCEPT
          !.balance = bal,
          !.win_count = IF closed.pnl > 0 THEN @ + 1 ELSE @,
          !.loss_count = IF closed.pnl > 0 THEN @ ELSE @ + 1,
          !.consecutive_losses = StreakAfter(@, closed.pnl),
          !.trades = StoreClosed(@, done),
          !.out = Append(@, done) ]

\* max_drawdown is the quotient <<n, d>> in lowest terms
RECURSIVE Gcd(_, _)
Gcd(a, b) == IF b = 0 THEN a ELSE Gcd(b, a % b)

Frac(n, d) == IF n = 0 THEN << 0, 1 >> ELSE << n \div Gcd(n, d), d \div Gcd(n, d) >>

\* a/b < c/d for a, c >= 0 and b, d > 0, by continued fractions
RECURSIVE FracLess(_, _, _, _)
FracLess(a, b, c, d) ==
  IF a \div b # c \div d THEN a \div b < c \div d
  ELSE IF c % d = 0 THEN FALSE
  ELSE IF a % b = 0 THEN TRUE
  ELSE FracLess(d, c % d, b, a % b)

\* portfolio.rs:554-562
PeakAfter(peak, bal) == IF bal > peak THEN bal ELSE peak

DrawdownAfter(mdd, peak, bal) ==
  IF peak > 0 /\ bal <= peak /\ FracLess(mdd[1], mdd[2], peak - bal, peak)
  THEN Frac(peak - bal, peak)
  ELSE mdd

\* the running state a resolve or close-all starts its pass with
StartAcc ==
  [ balance |-> balance, trades |-> trades, win_count |-> win_count,
    loss_count |-> loss_count, consecutive_losses |-> consecutive_losses,
    out |-> << >>, still_open |-> << >> ]

\* the pass of resolve_with_prices over the drained open set (portfolio.rs:359-550)
RECURSIVE ResolveLoop(_, _, _, _, _, _, _, _)
ResolveLoop(pending, i, acc, snap, exit_tp_pct, exit_sl_pct, clock, gases) ==
  IF i > Len(pending) THEN acc
  ELSE
    LET trade == pending[i]
    IN  IF trade.direction = "Skip"
        THEN ResolveLoop(pending, i + 1, acc, snap, exit_tp_pct, exit_sl_pct, clock, gases)
        ELSE
          LET d == ExitDecision(trade, snap, exit_tp_pct, exit_sl_pct, clock)
          IN  IF IsSome(d.reason)
              THEN ResolveLoop(pending, i + 1,
                     ApplyClose(acc, trade,
                                ClosedTrade(sim, trade, Unwrap(d.reason), d.price, gases[i])),
                     snap, exit_tp_pct, exit_sl_pct, clock, gases)
              ELSE ResolveLoop(pending, i + 1,
                     [ acc EXCEPT !.still_open = Append(@, trade) ],
                     snap, exit_tp_pct, exit_sl_pct, clock, gases)

\* the price close_all_positions marks a trade at (portfolio.rs:575-584)
MarkPrice(trade, snap) ==
  IF snap[trade.market_id] = ABSENT \/ trade.direction = "Skip" THEN trade.entry_price
  ELSE Unwrap(SidePrice(trade.direction, snap[trade.market_id]))

\* the pass of close_all_positions (portfolio.rs:574-647)
RECURSIVE CloseLoop(_, _, _, _, _)
CloseLoop(pending, i, acc, snap, gases) ==
  IF i > Len(pending) THEN acc
  ELSE CloseLoop(pending, i + 1,
         ApplyClose(acc, pending[i],
                    ClosedTrade(sim, pending[i], "ManualStop", MarkPrice(pending[i], snap),
                                gases[i])),
         snap, gases)

(***************************************************************************)
(* Strategist and executor                                                 *)
(***************************************************************************)
\* classify_mode: edge in price units, confidence in PCT units
classify_mode(edge, confidence, days_left) ==
  IF edge > 20 * (PRICE_ONE \div 100) /\ confidence >= 75 * (PCT_ONE \div 100)
  THEN "CONVICTION"
  ELSE IF edge > 15 * (PRICE_ONE \div 100) /\ confidence >= 70 * (PCT_ONE \div 100)
          /\ days_left <= 7
  THEN "SCALP"
  ELSE "SWING"

\* take-profit pct, stop-loss pct (both in 1/BP_ONE) and max hold hours per mode
ExitParams(mode, edge) ==
  IF mode = "SCALP"
  THEN [ tp |-> 12 * (BP_ONE \div 100), sl |-> 8 * (BP_ONE \div 100), hours |-> 24 ]
  ELSE IF mode = "SWING"
  THEN [ tp |-> Min(Max(edge * 8, 5 * (BP_ONE \div 100)), 20 * (BP_ONE \div 100)),
         sl |-> 10 * (BP_ONE \div 100), hours |-> 168 ]
  ELSE [ tp |-> 0, sl |-> 0, hours |-> 0 ]

\* strategist::plan
plan(direction, fair_value_yes, confidence, position_size, market) ==
  LET edge == Abs(fair_value_yes - market.yes_price)
      mode == classify_mode(edge, confidence, market.days_left)
      x == ExitParams(mode, edge)
  IN  [ market |-> market, direction |-> direction, fair_value_yes |-> fair_value_yes,
        edge |-> edge, confidence |-> confidence, mode |-> mode,
        bet_size |-> position_size, take_profit_pct |-> x.tp,
        stop_loss_pct |-> x.sl, max_hold_hours |-> x.hours ]

\* the fields the executor sets on the trade it got back (executor.rs:36-54)
Enrich(trade, p, clock) ==
  [ trade EXCEPT
      !.trade_mode = Some(p.mode),
      !.judge_fair_value = Some(p.fair_value_yes),
      !.judge_confidence = Some(p.confidence),
      !.take_profit = IF p.take_profit_pct > 0
                      THEN Some(trade.entry_price * (BP_ONE + p.take_profit_pct)) ELSE @,
      !.stop_loss = IF p.stop_loss_pct > 0
                    THEN Some(trade.entry_price * (BP_ONE - p.stop_loss_pct)) ELSE @,
      !.max_hold_until = IF p.max_hold_hours > 0
                         THEN Some(clock + p.max_hold_hours) ELSE @ ]

\* what Portfolio::execute_trade appends to the open set for the trade it returns
OpenRecord(trade) == trade

(***************************************************************************)
(* Inputs                                                                  *)
(***************************************************************************)
MaxTrades == 2
MaxNow == 1
NumIds == 2
InitialDollars == 100
MaxStartDollars == 120

Markets == { 1, 2 }
Ids == 1..NumIds

\* the ids a new uuid's first 8 characters can show, up to renaming: one already
\* in the history, or the least one that is not
IdsIn(hist) == { hist[i].id : i \in 1..Len(hist) }
NewIds(hist) == { id \in Ids : id <= Cardinality(IdsIn(hist)) + 1 }
SnapPrices == { 0, 600, ABSENT }
Snapshots == [ Markets -> SnapPrices ]
ClockStep == 100

\* the candidates a cycle can bring to the executor: market, direction, yes
\* price, judge fair value and confidence, days to expiry, approved size, volume
Candidates ==
  { [ m |-> 1, dir |-> "Yes", yp |-> 400, fv |-> 800, conf |-> 800, days |-> 3,
      size |-> Dollars(20), vol |-> Dollars(50) ],
    [ m |-> 2, dir |-> "No", yp |-> 400, fv |-> 100, conf |-> 720, days |-> 3,
      size |-> Dollars(60), vol |-> Dollars(5) ],
    [ m |-> 2, dir |-> "Yes", yp |-> 600, fv |-> 700, conf |-> 800, days |-> 30,
      size |-> Dollars(90), vol |-> Dollars(50) ],
    [ m |-> 1, dir |-> "Skip", yp |-> 400, fv |-> 400, conf |-> 720, days |-> 30,
      size |-> Dollars(20), vol |-> Dollars(50) ],
    [ m |-> 1, dir |-> "No", yp |-> PRICE_ONE, fv |-> 800, conf |-> 800, days |-> 3,
      size |-> Dollars(20), vol |-> Dollars(50) ],
    [ m |-> 1, dir |-> "Yes", yp |-> 400, fv |-> 800, conf |-> 800, days |-> 3,
      size |-> Dollars(InitialDollars) - Cents(199), vol |-> Dollars(50) ] }

MarketOf(m, yes_price, days_left, volume) ==
  [ id |-> m, yes_price |-> yes_price, days_left |-> days_left, volume |-> volume ]

\* a sequence of n gas draws, one per open trade
GasSeqs(n) == [ 1..n -> GasDraws(sim.gas_fee_min, sim.gas_fee_max) ]

(***************************************************************************)
(* Operations                                                              *)
(***************************************************************************)
\* Portfolio::new(initial_balance)
InitLedger(b) ==
  /\ balance = b
  /\ initial_balance = b
  /\ trades = << >>
  /\ open_trades = << >>
  /\ win_count = 0
  /\ loss_count = 0
  /\ consecutive_losses = 0
  /\ peak_balance = b
  /\ max_drawdown = << 0, 1 >>

\* Config: the legacy exit thresholds (config.rs:137-138; 0 = disabled)
DefaultCfg == [ exit_tp_pct |-> 0, exit_sl_pct |-> 0 ]

\* last: the ledger call made last and what it returned
NoCall == [ op |-> "none", ret |-> << >> ]

\* known: per market, the yes price of the latest snapshot that held it
NothingKnown == [ m \in Markets |-> ABSENT ]

\* asked: the snapshot the latest resolve_with_prices was called with, and how
\* many calls in a row (1 or 2) were made with it
NotAsked == [ snap |-> << >>, times |-> 0 ]

\* main: the cycle loop of main.rs (not running in the ledger's own specifications)
NotRunning ==
  [ pc |-> "off", flag |-> FALSE, unseen |-> FALSE, sources |-> {}, closes |-> 0,
    asked_at |-> "never", paused |-> FALSE, once |-> FALSE, checks_left |-> 0 ]

\* team: the candidates of a run_cycle in flight (none in the ledger's own
\* specifications)
NoTeam == << >>

\* mutex: the Mutex around PortfolioInner: who holds it, and whether a panic
\* under the lock has poisoned it
Unlocked == [ holder |-> 0, poisoned |-> FALSE ]

Init ==
  /\ InitLedger(Dollars(InitialDollars))
  /\ sim \in SimConfigs
  /\ cfg = DefaultCfg
  /\ now = 0
  /\ last = NoCall
  /\ known = NothingKnown
  /\ asked = NotAsked
  /\ main = NotRunning
  /\ team = NoTeam
  /\ mutex = Unlocked

\* executor::execute(plan): Portfolio::execute_trade, then the enrichment of
\* the returned trade
Execute ==
  \E c \in Candidates, id \in NewIds(trades) :
    \E fill \in FillOutcomes(sim, c.vol), gas \in GasDraws(sim.gas_fee_min, sim.gas_fee_max) :
      LET p == plan(c.dir, c.fv, c.conf, c.size, MarketOf(c.m, c.yp, c.days, c.vol))
          r == IF p.direction = "Skip" THEN None
               ELSE execute_trade(balance, id, Len(trades) + 1, p.market.id, p.direction,
                                  p.market.yes_price, p.fair_value_yes, p.bet_size,
                                  sim, p.market.volume, fill, gas)
      IN  /\ Len(trades) < MaxTrades
          /\ balance <= Dollars(MaxStartDollars)
          /\ balance' = Debit(balance, r)
          /\ IF IsSome(r)
             THEN /\ trades' = Append(trades, Unwrap(r))
                  /\ open_trades' = Append(open_trades, OpenRecord(Unwrap(r)))
                  /\ last' = [ op |-> "execute", ret |-> << Enrich(Unwrap(r), p, now) >> ]
             ELSE /\ UNCHANGED << trades, open_trades >>
                  /\ last' = [ op |-> "execute", ret |-> << >>,
                               why |-> IF p.direction = "Skip" THEN "skip"
                                       ELSE Refusal(balance, p.direction, p.market.yes_price,
                                                    p.bet_size, sim, fill, gas) ]
          /\ UNCHANGED << initial_balance, win_count, loss_count, consecutive_losses,
                          peak_balance, max_drawdown, sim, cfg, now, known, asked, main, team, mutex >>

\* Portfolio::resolve_with_prices(markets, exit_tp_pct, exit_sl_pct, sim) on the
\* snapshot snap, with one gas draw per open trade
ResolveOn(snap, gases) ==
  LET acc == ResolveLoop(open_trades, 1, StartAcc, snap, cfg.exit_tp_pct,
                         cfg.exit_sl_pct, now, gases)
      peak == PeakAfter(peak_balance, acc.balance)
  IN  /\ balance' = acc.balance
      /\ trades' = acc.trades
      /\ open_trades' = acc.still_open
      /\ win_count' = acc.win_count
      /\ loss_count' = acc.loss_count
      /\ consecutive_losses' = acc.consecutive_losses
      /\ peak_balance' = peak
      /\ max_drawdown' = DrawdownAfter(max_drawdown, peak, acc.balance)
      /\ last' = [ op |-> "resolve", ret |-> acc.out ]
      /\ UNCHANGED << initial_balance, sim, cfg, now >>

\* Portfolio::close_all_positions(markets, sim)
CloseAllOn(snap, gases) ==
  LET acc == CloseLoop(open_trades, 1, StartAcc, snap, gases)
  IN  /\ balance' = acc.balance
      /\ trades' = acc.trades
      /\ open_trades' = << >>
      /\ win_count' = acc.win_count
      /\ loss_count' = acc.loss_count
      /\ consecutive_losses' = acc.consecutive_losses
      /\ last' = [ op |-> "close_all", ret |-> acc.out ]
      /\ UNCHANGED << initial_balance, peak_balance, max_drawdown, sim, cfg, now >>

Resolve ==
  \E snap \in Snapshots, gases \in GasSeqs(Len(open_trades)) :
    ResolveOn(snap, gases) /\ UNCHANGED << known, asked, main, team, mutex >>

CloseAll ==
  \E snap \in Snapshots, gases \in GasSeqs(Len(open_trades)) :
    CloseAllOn(snap, gases) /\ UNCHANGED << known, asked, main, team, mutex >>

\* Portfolio::stats(): a read-only projection
Stats ==
  /\ last' = [ op |-> "stats", ret |-> << >> ]
  /\ UNCHANGED << ledger, sim, cfg, now, known, asked, main, team, mutex >>

Next == Execute \/ Resolve \/ CloseAll \/ Stats

Spec == Init /\ [][Next]_vars

(***************************************************************************)
(* The ledger with exit plans stored on its open records: the state the    *)
(* mode rules of resolve_with_prices read (Trade carries trade_mode,       *)
(* take_profit, stop_loss, max_hold_until, judge_fair_value and            *)
(* judge_confidence).  Two trades are open: one on market 1 with a stored  *)
(* plan drawn from StoredPlans, one on market 2 as execute_trade left it.  *)
(***************************************************************************)
NoPlan ==
  [ trade_mode |-> None, take_profit |-> None, stop_loss |-> None,
    max_hold_until |-> None, judge_fair_value |-> None, judge_confidence |-> None ]

\* a price level in LEVEL units from a price in PRICE units
Level(price) == price * BP_ONE

StoredPlans ==
  { NoPlan }
  \cup { [ trade_mode |-> Some("SCALP"), take_profit |-> Some(Level(tp)),
           stop_loss |-> Some(Level(sl)), max_hold_until |-> Some(ClockStep \div 2),
           judge_fair_value |-> Some(800), judge_confidence |-> Some(720) ] :
         tp \in { 448, 700 }, sl \in { 368, 600 } }
  \cup { [ trade_mode |-> Some("SWING"), take_profit |-> Some(Level(tp)),
           stop_loss |-> Some(Level(368)), max_hold_until |-> Some(ClockStep \div 2),
           judge_fair_value |-> Some(700), judge_confidence |-> Some(600) ] :
         tp \in { 448, 700 } }
  \cup { [ NoPlan EXCEPT !.trade_mode = Some("CONVICTION"),
                         !.judge_fair_value = Some(800),
                         !.judge_confidence = Some(conf) ] : conf \in { 600, 800 } }
  \cup { [ NoPlan EXCEPT !.trade_mode = Some("HOLD") ] }

WithPlan(trade, pl) ==
  [ trade EXCEPT !.trade_mode = pl.trade_mode, !.take_profit = pl.take_profit,
                 !.stop_loss = pl.stop_loss, !.max_hold_until = pl.max_hold_until,
                 !.judge_fair_value = pl.judge_fair_value,
                 !.judge_confidence = pl.judge_confidence ]

\* the plans stored on the No trade of market 2: none, or a Swing plan whose
\* judge fair value (of Yes, executor.rs:41) is 0.10, i.e. 0.90 for No
StoredPlansNo ==
  { NoPlan,
    [ NoPlan EXCEPT !.trade_mode = Some("SWING"),
                    !.judge_fair_value = Some(PRICE_ONE \div 10),
                    !.judge_confidence = Some(8 * (PCT_ONE \div 10)) ] }

\* the plans of the two open trades: one of them at most carries a plan
StoredPlanPairs ==
  { << pl, NoPlan >> : pl \in StoredPlans } \cup { << NoPlan, pl >> : pl \in StoredPlansNo }

LegacyCfg == [ exit_tp_pct |-> 2 * (PCT_ONE \div 10), exit_sl_pct |-> 3 * (PCT_ONE \div 10) ]

FullFill == [ kind |-> "full", pct |-> PCT_ONE ]

InitStored ==
  /\ sim \in SimConfigs
  /\ cfg = LegacyCfg
  /\ now = 0
  /\ last = NoCall
  /\ asked = NotAsked
  /\ main = NotRunning
  /\ team = NoTeam
  /\ mutex = Unlocked
  /\ known = [ m \in Markets |-> 4 * (PRICE_ONE \div 10) ]
  /\ \E pls \in StoredPlanPairs :
       LET pl == pls[1]
           pl_no == pls[2]
           a == Unwrap(execute_trade(Dollars(InitialDollars), 1, 1, 1, "Yes",
                                     4 * (PRICE_ONE \div 10), 8 * (PRICE_ONE \div 10),
                                     Dollars(20), sim, Dollars(50), FullFill,
                                     sim.gas_fee_min))
           b == Unwrap(execute_trade(a.balance_after, 2, 2, 2, "No",
                                     4 * (PRICE_ONE \div 10), PRICE_ONE \div 10,
                                     Dollars(60), sim, Dollars(50), FullFill,
                                     sim.gas_fee_min))
       IN  /\ balance = b.balance_after
           /\ initial_balance = Dollars(InitialDollars)
           /\ trades = << WithPlan(a, pl), WithPlan(b, pl_no) >>
           /\ open_trades = << WithPlan(a, pl), WithPlan(b, pl_no) >>
           /\ win_count = 0
           /\ loss_count = 0
           /\ consecutive_losses = 0
           /\ peak_balance = Dollars(InitialDollars)
           /\ max_drawdown = << 0, 1 >>

\* the yes prices known after a call that was given snap
KnownAfter(snap) == [ m \in Markets |-> IF snap[m] = ABSENT THEN known[m] ELSE snap[m] ]

AskedAfter(snap) ==
  IF asked.snap = << snap >> THEN [ snap |-> << snap >>, times |-> 2 ]
  ELSE [ snap |-> << snap >>, times |-> 1 ]

\* the snapshots of this specification: the prices of Snapshots and 0.28, the
\* yes price at which a stake opened at 0.40 has lost exactly 30%; one market
\* moves while the other stays at 0.60 or is gone
StoredPrices == SnapPrices \cup { 28 * (PRICE_ONE \div 100) }
StoredSnapshots ==
  { snap \in [ Markets -> StoredPrices ] :
      \/ snap[2] = 6 * (PRICE_ONE \div 10)
      \/ snap[1] \in { 6 * (PRICE_ONE \div 10), ABSENT } /\ snap[2] \in { 0, ABSENT } }

ResolveTracked ==
  \E snap \in StoredSnapshots, gases \in GasSeqs(Len(open_trades)) :
    /\ ResolveOn(snap, gases)
    /\ known' = KnownAfter(snap)
    /\ asked' = AskedAfter(snap)
    /\ UNCHANGED << main, team, mutex >>

CloseAllTracked ==
  \E snap \in StoredSnapshots, gases \in GasSeqs(Len(open_trades)) :
    /\ CloseAllOn(snap, gases)
    /\ known' = KnownAfter(snap)
    /\ asked' = NotAsked
    /\ UNCHANGED << main, team, mutex >>

\* time passes between calls
Tick ==
  /\ now < MaxNow * ClockStep
  /\ now' = now + ClockStep
  /\ last' = NoCall
  /\ asked' = NotAsked
  /\ UNCHANGED << ledger, sim, cfg, known, main, team, mutex >>

NextStored == ResolveTracked \/ CloseAllTracked \/ Tick

SpecStored == InitStored /\ [][NextStored]_vars

(***************************************************************************)
(* The cycle loop of main.rs with its shutdown channel.  The watch channel *)
(* is flag (its value) and unseen (a send the receiver has not yet marked  *)
(* seen); sources are the two senders that have not fired yet.  The team   *)
(* pipeline of a cycle approves no trade here.                             *)
(***************************************************************************)
Checks == 3
KillDollars == 15

\* strategy::check_consecutive_losses
check_consecutive_losses(consecutive) ==
  IF consecutive >= 5 THEN "Pause"
  ELSE IF consecutive >= 4 THEN "ReduceSize"
  ELSE IF consecutive >= 3 THEN "SkipCycle"
  ELSE "Continue"

\* Portfolio::is_alive(kill_threshold)
is_alive(bal, kill_threshold) == bal > kill_threshold

\* the streaks the loop is started with, and the history that gives them:
\* k trades of 20 on market 1, each closed at its entry price when the market
\* left the snapshot
StartStreaks == { 0, 2, 3, 5 }

LostTrade(i) ==
  LET t == Unwrap(execute_trade(Dollars(InitialDollars), i, i, 1, "Yes",
                                4 * (PRICE_ONE \div 10), 8 * (PRICE_ONE \div 10),
                                Dollars(20), SimDisabled, Dollars(50), FullFill, 0))
  IN  [ ClosedTrade(SimDisabled, t, "MarketResolved", t.entry_price, 0)
          EXCEPT !.balance_after = Dollars(InitialDollars) ]

StillOpen(i) ==
  Unwrap(execute_trade(Dollars(InitialDollars), i, i, 2, "Yes",
                       4 * (PRICE_ONE \div 10), 8 * (PRICE_ONE \div 10),
                       Dollars(20), SimDisabled, Dollars(50), FullFill, 0))

InitMain ==
  /\ team = NoTeam
  /\ mutex = Unlocked
  /\ sim = SimDisabled
  /\ cfg = DefaultCfg
  /\ now = 0
  /\ last = NoCall
  /\ known = NothingKnown
  /\ asked = NotAsked
  /\ initial_balance = Dollars(InitialDollars)
  /\ peak_balance = Dollars(InitialDollars)
  /\ max_drawdown = << 0, 1 >>
  /\ win_count = 0
  /\ \E k \in StartStreaks, with_open \in BOOLEAN :
       LET lost == [ i \in 1..k |-> LostTrade(i) ]
       IN  /\ loss_count = k
           /\ consecutive_losses = k
           /\ trades = IF with_open THEN Append(lost, StillOpen(k + 1)) ELSE lost
           /\ open_trades = IF with_open THEN << StillOpen(k + 1) >> ELSE << >>
           /\ balance = IF with_open THEN StillOpen(k + 1).balance_after
                        ELSE Dollars(InitialDollars)
  /\ \E jitter, once \in BOOLEAN :
       main = [ pc |-> IF jitter THEN "jitter" ELSE "cycle",
                flag |-> FALSE, unseen |-> FALSE,
                sources |-> { "ctrl_c", "stop_file" }, closes |-> 0,
                asked_at |-> "never", paused |-> FALSE, once |-> once,
                checks_left |-> 0 ]

\* the snapshots a scan brings here: both markets at 0.60, or both gone
MainSnapshots == { snap \in Snapshots : snap[1] = snap[2] /\ snap[1] # 0 }

NoGas == [ i \in 1..Len(open_trades) |-> 0 ]

\* resolve_open_trades, and the resolve of a fast price check
MainResolve ==
  \E snap \in MainSnapshots : ResolveOn(snap, NoGas) /\ UNCHANGED << known, asked, team, mutex >>

\* graceful_shutdown: close_all_positions on a fresh scan, then the process ends
GracefulShutdown ==
  /\ \E snap \in MainSnapshots : CloseAllOn(snap, NoGas)
  /\ main' = [ main EXCEPT !.pc = "exited", !.unseen = FALSE, !.closes = @ + 1 ]
  /\ UNCHANGED << known, asked, team, mutex >>

LedgerIdle ==
  UNCHANGED << ledger, sim, cfg, now, last, known, asked, team, mutex >>

\* Ctrl+C or the STOP file: shutdown_tx.send(true)
Signal ==
  /\ main.pc # "exited"
  /\ \E src \in main.sources :
       main' = [ main EXCEPT !.flag = TRUE, !.unseen = TRUE,
                             !.sources = @ \ { src },
                             !.asked_at = IF @ = "never" THEN main.pc ELSE @ ]
  /\ LedgerIdle

\* the jitter sleep before the loop: on a signal main returns at once
JitterSleep ==
  /\ main.pc = "jitter"
  /\ main' = IF main.unseen THEN [ main EXCEPT !.pc = "exited", !.unseen = FALSE ]
             ELSE [ main EXCEPT !.pc = "cycle" ]
  /\ LedgerIdle

\* the head of a cycle: survival check, loss action, resolve of the open trades
CycleStart ==
  /\ main.pc = "cycle"
  /\ IF ~is_alive(balance, Dollars(KillDollars))
     THEN main' = [ main EXCEPT !.pc = "exited" ] /\ LedgerIdle
     ELSE LET action == check_consecutive_losses(consecutive_losses)
          IN  /\ MainResolve
              /\ main' = IF action = "Pause"
                         THEN [ main EXCEPT !.paused = TRUE, !.pc = "pause_sleep" ]
                         ELSE IF action = "SkipCycle"
                         THEN [ main EXCEPT !.pc = "skip_sleep" ]
                         ELSE IF action = "Continue"
                         THEN [ main EXCEPT !.paused = FALSE, !.pc = "commands" ]
                         ELSE [ main EXCEPT !.pc = "commands" ]

\* the tail of a cycle: Telegram commands, single-run exit, choice of the wait
Commands ==
  /\ main.pc = "commands"
  /\ \E cmd \in { "none", "stop" } :
       IF cmd = "stop" THEN GracefulShutdown
       ELSE /\ main' = IF main.once THEN [ main EXCEPT !.pc = "exited" ]
                       ELSE IF Len(open_trades) > 0
                       THEN [ main EXCEPT !.pc = "fast", !.checks_left = Checks ]
                       ELSE [ main EXCEPT !.pc = "sleep" ]
            /\ LedgerIdle

\* sleep_or_shutdown(interval) between cycles: false on a change of the channel
NormalSleep ==
  /\ main.pc = "sleep"
  /\ IF main.unseen THEN GracefulShutdown
     ELSE main' = [ main EXCEPT !.pc = "cycle" ] /\ LedgerIdle

\* sleep_or_shutdown(interval) of the Pause branch: the result is dropped
PauseSleep ==
  /\ main.pc = "pause_sleep"
  /\ main' = [ main EXCEPT !.pc = "cycle", !.unseen = FALSE ]
  /\ LedgerIdle

\* sleep_or_shutdown(interval) of the SkipCycle branch: the result is dropped
SkipSleep ==
  /\ main.pc = "skip_sleep"
  /\ main' = [ main EXCEPT !.pc = "cycle", !.unseen = FALSE ]
  /\ LedgerIdle

\* one round of the fast price-check loop
FastCheck ==
  /\ main.pc = "fast"
  /\ IF main.checks_left = 0
     THEN main' = [ main EXCEPT !.pc = "cycle" ] /\ LedgerIdle
     ELSE IF main.flag \/ main.unseen THEN GracefulShutdown
     ELSE IF Len(open_trades) = 0
     THEN /\ main' = IF main.checks_left > 1 THEN [ main EXCEPT !.pc = "rest" ]
                     ELSE [ main EXCEPT !.pc = "cycle" ]
          /\ LedgerIdle
     ELSE /\ MainResolve
          /\ main' = [ main EXCEPT !.checks_left = @ - 1 ]

\* the sleep over the rest of the interval once every position is closed
RestSleep ==
  /\ main.pc = "rest"
  /\ IF main.unseen THEN GracefulShutdown
     ELSE main' = [ main EXCEPT !.pc = "cycle" ] /\ LedgerIdle

MainStep ==
  JitterSleep \/ CycleStart \/ Commands \/ NormalSleep \/ PauseSleep \/ SkipSleep
    \/ FastCheck \/ RestSleep

NextMain ==
  \/ Signal
  \/ JitterSleep
  \/ CycleStart
  \/ Commands
  \/ NormalSleep
  \/ PauseSleep
  \/ SkipSleep
  \/ FastCheck
  \/ RestSleep

\* the main task is always scheduled again: a step of the loop that stays
\* possible is taken
FairMain == InitMain /\ [][NextMain]_vars /\ WF_vars(MainStep)

(***************************************************************************)
(* The ledger with the question text of its trades.  A question is the     *)
(* sequence of the UTF-8 widths (1 to 4 bytes) of its characters; the log  *)
(* lines of execute_trade and resolve_with_prices cut it at a byte offset  *)
(* with &question[..question.len().min(n)], which panics when the offset   *)
(* is not a character boundary.  A panic under the lock poisons the Mutex, *)
(* and every later lock().unwrap() panics in turn.                         *)
(***************************************************************************)
RECURSIVE ByteLen(_)
ByteLen(q) == IF q = << >> THEN 0 ELSE Head(q) + ByteLen(Tail(q))

\* str::is_char_boundary
IsCharBoundary(q, n) == \E k \in 0..Len(q) : ByteLen(SubSeq(q, 1, k)) = n

\* whether &q[..q.len().min(n)] returns
SliceOk(q, n) == IsCharBoundary(q, Min(ByteLen(q), n))

\* the cut of the rejection warning and of the CLOSED line
LogCut40 == 40
LogCut35 == 35

Ascii(n) == [ i \in 1..n |-> 1 ]

\* questions: plain and short, with a 2-byte character over byte 35, with a
\* 3-byte character over byte 40
Questions ==
  { Ascii(20), Ascii(34) \o << 2 >> \o Ascii(4), Ascii(39) \o << 3 >> }

WithQuestion(trade, q) == ("question" :> q) @@ trade

TextCandidates ==
  { c \in Candidates : c.dir # "Skip" /\ c.yp < PRICE_ONE /\ c.size <= Dollars(60) }

\* the snapshots of this specification: market 1 at 0.60 or gone, market 2 gone
TextSnapshots == { snap \in Snapshots : snap[1] # 0 /\ snap[2] = ABSENT }

\* lock().unwrap() on a poisoned Mutex: the caller panics, the ledger is as it was
Panicked == [ op |-> "panic", ret |-> << >> ]

PoisonedCall ==
  /\ mutex.poisoned
  /\ last' = Panicked
  /\ UNCHANGED << ledger, mutex >>

\* Portfolio::execute_trade(market_id, question, ...)
ExecuteText ==
  \E c \in TextCandidates, q \in Questions, id \in NewIds(trades) :
    \E fill \in FillOutcomes(sim, c.vol), gas \in GasDraws(sim.gas_fee_min, sim.gas_fee_max) :
      LET r == execute_trade(balance, id, Len(trades) + 1, c.m, c.dir, c.yp, c.fv, c.size,
                             sim, c.vol, fill, gas)
          why == Refusal(balance, c.dir, c.yp, c.size, sim, fill, gas)
      IN  /\ Len(trades) < MaxTrades
          /\ \/ PoisonedCall
             \/ /\ ~mutex.poisoned
                /\ why = "rejected" /\ ~SliceOk(q, LogCut40)
                /\ mutex' = [ mutex EXCEPT !.poisoned = TRUE ]
                /\ last' = Panicked
                /\ UNCHANGED ledger
             \/ /\ ~mutex.poisoned
                /\ ~(why = "rejected" /\ ~SliceOk(q, LogCut40))
                /\ balance' = Debit(balance, r)
                /\ IF IsSome(r)
                   THEN /\ trades' = Append(trades, WithQuestion(Unwrap(r), q))
                        /\ open_trades' = Append(open_trades, WithQuestion(Unwrap(r), q))
                        /\ last' = [ op |-> "execute",
                                     ret |-> << WithQuestion(Unwrap(r), q) >> ]
                   ELSE /\ UNCHANGED << trades, open_trades >>
                        /\ last' = [ op |-> "execute", ret |-> << >>, why |-> why ]
                /\ UNCHANGED << initial_balance, win_count, loss_count, consecutive_losses,
                                peak_balance, max_drawdown, mutex >>
          /\ UNCHANGED << sim, cfg, now, known, asked, main, team >>

\* the places in the open set of the trades whose CLOSED line panics
PanicPlaces(snap) ==
  { i \in 1..Len(open_trades) :
      /\ open_trades[i].direction # "Skip"
      /\ IsSome(ExitDecision(open_trades[i], snap, cfg.exit_tp_pct, cfg.exit_sl_pct,
                             now).reason)
      /\ ~SliceOk(open_trades[i].question, LogCut35) }

\* resolve_with_prices: the pass stops at the first close whose log line
\* panics, after the credit and the history update of that trade
\* (portfolio.rs:530-542); the drained open set is not put back
ResolveText ==
  \E snap \in TextSnapshots, gases \in GasSeqs(Len(open_trades)) :
    /\ \/ PoisonedCall
       \/ /\ ~mutex.poisoned
          /\ PanicPlaces(snap) = {}
          /\ ResolveOn(snap, gases)
          /\ UNCHANGED mutex
       \/ /\ ~mutex.poisoned
          /\ PanicPlaces(snap) # {}
          /\ LET k == CHOOSE i \in PanicPlaces(snap) : \A j \in PanicPlaces(snap) : i <= j
                 acc == ResolveLoop(SubSeq(open_trades, 1, k), 1, StartAcc, snap,
                                    cfg.exit_tp_pct, cfg.exit_sl_pct, now, gases)
             IN  /\ balance' = acc.balance
                 /\ trades' = acc.trades
                 /\ open_trades' = << >>
                 /\ win_count' = acc.win_count
                 /\ loss_count' = acc.loss_count
                 /\ consecutive_losses' = acc.consecutive_losses
          /\ mutex' = [ mutex EXCEPT !.poisoned = TRUE ]
          /\ last' = Panicked
          /\ UNCHANGED << initial_balance, peak_balance, max_drawdown >>
    /\ UNCHANGED << sim, cfg, now, known, asked, main, team >>

\* close_all_positions writes no question to the log
CloseAllText ==
  \E snap \in TextSnapshots, gases \in GasSeqs(Len(open_trades)) :
    /\ \/ PoisonedCall
       \/ ~mutex.poisoned /\ CloseAllOn(snap, gases) /\ UNCHANGED mutex
    /\ UNCHANGED << sim, cfg, now, known, asked, main, team >>

StatsText ==
  /\ \/ PoisonedCall
     \/ /\ ~mutex.poisoned
        /\ last' = [ op |-> "stats", ret |-> << >> ]
        /\ UNCHANGED << ledger, mutex >>
  /\ UNCHANGED << sim, cfg, now, known, asked, main, team >>

NextText == ExecuteText \/ ResolveText \/ CloseAllText \/ StatsText

SpecText == Init /\ [][NextText]_vars

(***************************************************************************)
(* Position sizing (strategy.rs) and the risk manager                      *)
(* (team/risk_manager.rs).  Amounts are whole cents here (every amount the *)
(* sizing returns went through round_dp(2)); probabilities and prices are  *)
(* in PRICE units, confidence in PCT units, and every rate (max_pct,       *)
(* kelly_fraction, the Kelly fractions) is an exact quotient <<n, d>> in    *)
(* lowest terms.  Decimal keeps 28 digits of a quotient; the inputs below  *)
(* are chosen so that no amount sits on a rounding tie that the 28th digit *)
(* could move.                                                             *)
(***************************************************************************)
CENT == MONEY_ONE \div 100

FracMul(x, y) == Frac(x[1] * y[1], x[2] * y[2])
FracMin(x, y) == IF FracLess(y[1], y[2], x[1], x[2]) THEN y ELSE x

\* (amount * rate).round_dp(2), in cents
RoundCents(amount, rate) == RoundDiv(amount * rate[1], rate[2])

\* strategy.rs:102, 112, 119: the bankroll the scaling starts from (cents), the
\* ceiling of the scaled cap, the least bet (cents)
KellyScaleBase == 10000
KellyCeiling == << 4, 5 >>
MinTradeCents == 10

\* the KellyResult kelly_bet starts from and returns on every refusal
KellyNone(bankroll, max_pct) ==
  [ full_kelly |-> << 0, 1 >>, adjusted_kelly |-> << 0, 1 >>, bet_size |-> 0,
    bet_fraction |-> << 0, 1 >>, max_allowed |-> FracMul(<< bankroll, 1 >>, max_pct),
    risk_level |-> "NONE" ]

\* scale_factor = 1 + (bankroll/100 - 1) * 0.5 above $100, else 1
ScaleFactor(bankroll) ==
  IF bankroll > KellyScaleBase
  THEN Frac(bankroll + KellyScaleBase, 2 * KellyScaleBase)
  ELSE << 1, 1 >>

\* the profit per stake without the division by the odds: (p*b - q)
FullKellyUndivided(p, price) == Frac(p - price, price)

\* strategy.rs:86-90 for p > price: with b = (1 - price)/price and q = 1 - p
\* the Kelly fraction (p*b - q)/b is (p - price)/(1 - price)
FullKelly(p, price) == Frac(p - price, PRICE_ONE - price)

\* strategy::kelly_bet
kelly_bet(bankroll, fair_prob, market_price, direction, max_pct, kelly_fraction) ==
  LET p == IF direction = "No" THEN PRICE_ONE - fair_prob ELSE fair_prob
      price == IF direction = "No" THEN PRICE_ONE - market_price ELSE market_price
      zero == KellyNone(bankroll, max_pct)
  IN  IF direction = "Skip" THEN zero
      ELSE IF price <= 0 \/ price >= PRICE_ONE \/ p <= 0 \/ p >= PRICE_ONE THEN zero
      ELSE IF p - price <= 0 THEN zero
      ELSE LET kelly == FullKelly(p, price)
               adjusted == FracMul(kelly, kelly_fraction)
               scaled_max_pct == FracMin(FracMul(max_pct, ScaleFactor(bankroll)),
                                         KellyCeiling)
               bet_fraction == FracMin(adjusted, scaled_max_pct)
               bet == RoundCents(bankroll, bet_fraction)
               sized == [ zero EXCEPT !.full_kelly = kelly,
                                      !.adjusted_kelly = adjusted,
                                      !.bet_fraction = bet_fraction ]
           IN  IF bet < MinTradeCents
               THEN [ sized EXCEPT !.bet_size = 0, !.risk_level = "BELOW_MIN" ]
               ELSE [ sized EXCEPT
                        !.bet_size = IF bet > bankroll THEN bankroll ELSE bet,
                        !.risk_level =
                          IF FracLess(bet_fraction[1], bet_fraction[2], 2, 100) THEN "LOW"
                          ELSE IF FracLess(bet_fraction[1], bet_fraction[2], 3, 100)
                          THEN "MEDIUM"
                          ELSE "HIGH" ]

\* strategy::survival_adjust: the cap and whether the agent is dead
survival_adjust(bankroll, kill_threshold, normal_max_pct) ==
  LET buffer_zone == 3 * kill_threshold
  IN  IF bankroll <= kill_threshold THEN [ pct |-> << 0, 1 >>, dead |-> TRUE ]
      ELSE IF bankroll < buffer_zone
      THEN LET ratio == Frac(bankroll - kill_threshold, buffer_zone - kill_threshold)
               reduced_pct == FracMul(FracMul(normal_max_pct, ratio), << 1, 2 >>)
           IN  [ pct |-> IF FracLess(reduced_pct[1], reduced_pct[2], 1, 100)
                         THEN << 1, 100 >> ELSE reduced_pct,
                 dead |-> FALSE ]
      ELSE [ pct |-> normal_max_pct, dead |-> FALSE ]

\* Config (config.rs:104-108, 135, 142) in the units above, with a starting
\* balance of $100
RiskCfg ==
  [ exit_tp_pct |-> 0, exit_sl_pct |-> 0,
    initial_balance |-> 100 * 100, max_position_pct |-> << 8, 100 >>,
    kill_threshold |-> KillDollars * 100, kelly_fraction |-> << 2, 5 >>,
    min_confidence |-> 6 * (PCT_ONE \div 10), balance_reserve_pct |-> << 1, 10 >> ]

\* risk_manager.rs:80-82: the widest |fair value - 0.50| the check lets through
MaxEdge == 35 * (PRICE_ONE \div 100)

\* risk_manager.rs:124-128: confidence at or above 0.80 keeps the whole bet
FullConfidence == 8 * (PCT_ONE \div 10)

Rejected(reason) == [ approved |-> FALSE, position_size |-> 0, reason |-> reason ]

\* the market price risk_manager::check hands to kelly_bet (risk_manager.rs:95-99);
\* fair values are whole percents here, so the half is exact
ApproxPrice(direction, fair_value) ==
  LET half_edge == Abs(fair_value - PRICE_ONE \div 2) \div 2
  IN  IF direction = "No" THEN PRICE_ONE - fair_value + half_edge
      ELSE fair_value - half_edge

\* risk_manager::check(verdict, portfolio, config, effective_max_pct) against a
\* ledger whose balance() is bal (cents); the reserve of the configurations
\* used is a whole number of cents
check(verdict, bal, config, effective_max_pct) ==
  LET reserve == (config.initial_balance * config.balance_reserve_pct[1])
                   \div config.balance_reserve_pct[2]
      available == bal - reserve
      adj == survival_adjust(bal, config.kill_threshold, effective_max_pct)
      kelly == kelly_bet(bal, verdict.fv, ApproxPrice(verdict.dir, verdict.fv),
                         verdict.dir, adj.pct, config.kelly_fraction)
      capped == Min(kelly.bet_size, available)
      bet == IF verdict.conf >= FullConfidence THEN capped
             ELSE RoundDiv(capped * verdict.conf, FullConfidence)
  IN  IF verdict.dir = "Skip" THEN Rejected("skip")
      ELSE IF ~is_alive(bal, config.kill_threshold) THEN Rejected("kill")
      ELSE IF available <= 0 THEN Rejected("reserve")
      ELSE IF verdict.conf < config.min_confidence THEN Rejected("confidence")
      ELSE IF adj.dead THEN Rejected("dead")
      ELSE IF Abs(verdict.fv - PRICE_ONE \div 2) > MaxEdge THEN Rejected("edge")
      ELSE IF kelly.bet_size <= 0 THEN Rejected("kelly")
      ELSE IF bet <= 0 THEN Rejected("rounding")
      ELSE [ approved |-> TRUE, position_size |-> bet, reason |-> "approved" ]

\* The sizing functions on their own: the inputs (balance in cents, judge fair
\* value, market yes price, confidence, direction, cap passed in, Kelly
\* multiplier) are drawn at the start, then each function is applied once.
\* check() reads the ledger only through balance(), which is the bankroll
\* input here.
SizingInputs ==
  [ bankroll : { 1500, 1600, 2000, 3010, 4499, 4500, 10000, 20000, 40000 },
    fv : { 10 * (PRICE_ONE \div 100), 30 * (PRICE_ONE \div 100), PRICE_ONE \div 2,
           65 * (PRICE_ONE \div 100), 70 * (PRICE_ONE \div 100),
           90 * (PRICE_ONE \div 100) },
    yp : { 0, 5 * (PRICE_ONE \div 100), PRICE_ONE \div 2, 85 * (PRICE_ONE \div 100),
           PRICE_ONE },
    conf : { PCT_ONE \div 2, 72 * (PCT_ONE \div 100), FullConfidence },
    dir : { "Yes", "No", "Skip" },
    max_pct : { << 8, 100 >>, << 1, 200 >>, << 1, 1 >> },
    kf : { << 2, 5 >>, << 1, 1 >> } ]

InitSizing ==
  /\ InitLedger(Dollars(InitialDollars))
  /\ sim = SimDisabled
  /\ cfg = RiskCfg
  /\ now = 0
  /\ last = NoCall
  /\ known = NothingKnown
  /\ asked = NotAsked
  /\ main = NotRunning
  /\ mutex = Unlocked
  /\ team \in { [ in |-> i, kelly |-> None, risk |-> None, survival |-> None ] :
                 i \in SizingInputs }

\* kelly_bet(bankroll, fair_prob, market_price, direction, max_pct, kelly_fraction)
KellyBet ==
  /\ team.kelly = None
  /\ team' = [ team EXCEPT !.kelly =
                 Some(kelly_bet(team.in.bankroll, team.in.fv, team.in.yp, team.in.dir,
                                team.in.max_pct, team.in.kf)) ]
  /\ last' = [ op |-> "kelly_bet", ret |-> << >> ]
  /\ UNCHANGED << ledger, sim, cfg, now, known, asked, main, mutex >>

\* risk_manager::check(verdict, portfolio, config, effective_max_pct)
RiskCheck ==
  /\ team.risk = None
  /\ team' = [ team EXCEPT !.risk =
                 Some(check(team.in, team.in.bankroll, cfg, team.in.max_pct)) ]
  /\ last' = [ op |-> "check", ret |-> << >> ]
  /\ UNCHANGED << ledger, sim, cfg, now, known, asked, main, mutex >>

\* survival_adjust(bankroll, kill_threshold, normal_max_pct)
SurvivalAdjust ==
  /\ team.survival = None
  /\ team' = [ team EXCEPT !.survival =
                 Some(survival_adjust(team.in.bankroll, cfg.kill_threshold,
                                      team.in.max_pct)) ]
  /\ last' = [ op |-> "survival_adjust", ret |-> << >> ]
  /\ UNCHANGED << ledger, sim, cfg, now, known, asked, main, mutex >>

NextSizing == KellyBet \/ RiskCheck \/ SurvivalAdjust

SpecSizing == InitSizing /\ [][NextSizing]_vars

(***************************************************************************)
(* One iteration of the main loop from its survival check to the end of    *)
(* team::run_cycle (main.rs:259-347, team/mod.rs:127-162, 336-415).  The   *)
(* candidates of a cycle are futures polled together by join_all on one    *)
(* task, so a step of a candidate runs from one await to the next: from    *)
(* the judge's answer through the risk check, the strategist and the       *)
(* edge filter to the final validator's request, and from the validator's  *)
(* answer through the executor.  Without a configured validator the two    *)
(* are one step.  team holds the position of the loop and of each future.  *)
(***************************************************************************)
\* SimConfig::from_config of the defaults (config.rs:151-167) with slippage,
\* fill simulation and impact switched off: gas between 0.01 and 0.05 per
\* order, platform fee 2%, taker fee 0
SimFees ==
  [ name |-> "fees",
    fees_enabled |-> TRUE, slippage_enabled |-> FALSE,
    fills_enabled |-> FALSE, impact_enabled |-> FALSE,
    gas_fee_min |-> Cents(1), gas_fee_max |-> Cents(5),
    platform_fee_pct |-> 20, taker_fee_pct |-> 0,
    base_slippage_pct |-> 1, size_penalty_pct |-> 5,
    size_penalty_threshold |-> Dollars(1),
    reject_probability |-> 50, partial_fill_probability |-> 150,
    min_liquidity_volume |-> Dollars(10),
    impact_threshold |-> Dollars(2), impact_per_dollar_pct |-> 3 ]

\* the defaults with every effect enabled, gas 0.02 (min = max) and a size
\* penalty of 2% per dollar above $1 (SIM_SIZE_PENALTY_PCT=0.02): the slippage
\* of a $60 order is then what the default 0.5% per dollar gives a $237 order
SimSteep ==
  [ SimFees EXCEPT !.name = "steep", !.slippage_enabled = TRUE, !.fills_enabled = TRUE,
                   !.impact_enabled = TRUE, !.gas_fee_min = Cents(2),
                   !.gas_fee_max = Cents(2), !.size_penalty_pct = 20 ]

\* the ledger of Spec run with SimSteep
InitSteep ==
  /\ InitLedger(Dollars(InitialDollars))
  /\ sim = SimSteep
  /\ cfg = DefaultCfg
  /\ now = 0
  /\ last = NoCall
  /\ known = NothingKnown
  /\ asked = NotAsked
  /\ main = NotRunning
  /\ team = NoTeam
  /\ mutex = Unlocked

SpecSteep == InitSteep /\ [][Next]_vars

\* the configurations the loop is run with: at most one open position, two
\* candidates analysed per cycle, the final validator configured or not, and
\* a reserve of 10% (the default) or 95% of the starting balance
CycleCfgs ==
  { [ c \in { "max_open_positions", "max_deep_analysis", "claude_configured" } |->
        IF c = "max_open_positions" THEN 1
        ELSE IF c = "max_deep_analysis" THEN 2
        ELSE claude ] @@ [ RiskCfg EXCEPT !.balance_reserve_pct = reserve_pct ] :
      claude \in BOOLEAN, reserve_pct \in { << 1, 10 >>, << 19, 20 >> } }

\* the verdicts the judge can return for a candidate, with the candidate's market
CycleCandidates ==
  { [ m |-> 1, dir |-> "Yes", yp |-> 400, fv |-> 700, conf |-> 800, days |-> 30,
      vol |-> Dollars(50) ],
    [ m |-> 2, dir |-> "No", yp |-> 600, fv |-> 300, conf |-> 720, days |-> 3,
      vol |-> Dollars(50) ],
    [ m |-> 2, dir |-> "Yes", yp |-> 400, fv |-> 450, conf |-> 800, days |-> 30,
      vol |-> Dollars(50) ],
    [ m |-> 1, dir |-> "Skip", yp |-> 400, fv |-> 400, conf |-> 720, days |-> 30,
      vol |-> Dollars(50) ] }

\* the market snapshots resolve_open_trades works on: both markets still listed
CycleSnapshots == { [ m \in Markets |-> p ] : p \in { 400, 600 } }

\* the loop between two cycles: its locals that outlive a cycle are
\* loss_reduction_trades_left (main.rs:235) and, for the properties, armed_at,
\* the number of trades in the history when the reduction started
Idle ==
  [ phase |-> "idle", max_pct |-> << 0, 1 >>, adj_max_pct |-> << 0, 1 >>,
    action |-> "Continue", futures |-> << >>, loss_reduction_trades_left |-> 0,
    armed_at |-> 0, max_trades |-> MaxTrades ]

\* the end of a cycle: the cycle's locals are dropped
Rested(s) ==
  [ Idle EXCEPT !.loss_reduction_trades_left = s.loss_reduction_trades_left,
                !.armed_at = s.armed_at, !.max_trades = s.max_trades ]

\* main.rs:294-299: ReduceSize starts the reduction when none is running
ReductionAfter(action, left) == IF action = "ReduceSize" /\ left = 0 THEN 3 ELSE left

\* main.rs:319-321: the cap is halved while loss_reduction_trades_left > 0
ReducedCap(pct, left) == IF left > 0 THEN FracMul(pct, << 1, 2 >>) ELSE pct

InitCycle ==
  /\ InitLedger(Dollars(InitialDollars))
  /\ sim = SimFees
  /\ cfg \in CycleCfgs
  /\ now = 0
  /\ last = NoCall
  /\ known = NothingKnown
  /\ asked = NotAsked
  /\ main = NotRunning
  /\ mutex = Unlocked
  /\ team = Idle

\* the balance in cents
BalanceCents == balance \div CENT

\* main.rs:259-327: the survival check, the loss-streak action, the cap for
\* this cycle, then resolve_open_trades; under Pause and SkipCycle the resolve
\* is all the cycle does
CycleResolve ==
  LET adj == survival_adjust(BalanceCents, cfg.kill_threshold, cfg.max_position_pct)
      action == check_consecutive_losses(consecutive_losses)
      left == ReductionAfter(action, team.loss_reduction_trades_left)
  IN  /\ team.phase = "idle"
      /\ is_alive(BalanceCents, cfg.kill_threshold)
      /\ ~adj.dead
      /\ \E snap \in CycleSnapshots, gases \in GasSeqs(Len(open_trades)) :
           ResolveOn(snap, gases)
      /\ team' = IF action \in { "Pause", "SkipCycle" } THEN team ELSE
                 [ team EXCEPT !.phase = "resolved",
                               !.action = action,
                               !.adj_max_pct = adj.pct,
                               !.loss_reduction_trades_left = left,
                               !.armed_at = IF left # team.loss_reduction_trades_left
                                            THEN Len(trades) ELSE @,
                               !.max_pct = ReducedCap(adj.pct, left) ]
      /\ UNCHANGED << known, asked, main, mutex >>

\* main.rs:329-347 and team/mod.rs:127-160: the open-position check, then one
\* future per candidate (each on a market of its own), at most
\* max_deep_analysis of them
RunCycle ==
  /\ team.phase = "resolved"
  /\ IF Len(open_trades) >= cfg.max_open_positions
     THEN team' = Rested(team)
     ELSE \E n \in 1..cfg.max_deep_analysis :
            \E cs \in [ 1..n -> CycleCandidates ] :
              /\ \A i, j \in 1..n : i # j => cs[i].m # cs[j].m
              /\ Len(trades) + n <= team.max_trades
              /\ team' = [ team EXCEPT !.phase = "running",
                                       !.futures =
                                         [ i \in 1..n |->
                                             [ c |-> cs[i], pc |-> "judge", size |-> 0,
                                               seen |-> 0 ] ] ]
  /\ UNCHANGED << ledger, sim, cfg, now, last, known, asked, main, mutex >>

\* executor::execute(plan, portfolio, ...): execute_trade with the approved size
ExecuteApproved(c, size) ==
  \E id \in NewIds(trades), fill \in FillOutcomes(sim, c.vol),
     gas \in GasDraws(sim.gas_fee_min, sim.gas_fee_max) :
    LET p == plan(c.dir, c.fv, c.conf, size * CENT, MarketOf(c.m, c.yp, c.days, c.vol))
        r == execute_trade(balance, id, Len(trades) + 1, p.market.id, p.direction,
                           p.market.yes_price, p.fair_value_yes, p.bet_size,
                           sim, p.market.volume, fill, gas)
    IN  /\ balance' = Debit(balance, r)
        /\ IF IsSome(r)
           THEN /\ trades' = Append(trades, Unwrap(r))
                /\ open_trades' = Append(open_trades, OpenRecord(Unwrap(r)))
                /\ last' = [ op |-> "execute", ret |-> << Enrich(Unwrap(r), p, now) >> ]
           ELSE /\ UNCHANGED << trades, open_trades >>
                /\ last' = [ op |-> "execute", ret |-> << >>,
                             why |-> Refusal(balance, p.direction, p.market.yes_price,
                                             p.bet_size, sim, fill, gas) ]
        /\ UNCHANGED << initial_balance, win_count, loss_count, consecutive_losses,
                        peak_balance, max_drawdown >>

\* the edge-vs-stop-loss filter (team/mod.rs:365-372): the edge in price units
\* against the stop loss in 1/BP_ONE
EdgeBelowStop(p) ==
  p.stop_loss_pct > 0 /\ p.edge * (BP_ONE \div PRICE_ONE) < p.stop_loss_pct

\* analyze_candidate from the judge's verdict on (team/mod.rs:342-410)
Analyze(i) ==
  LET f == team.futures[i]
      risk == check(f.c, BalanceCents, cfg, team.max_pct)
      p == plan(f.c.dir, f.c.fv, f.c.conf, risk.position_size * CENT,
                MarketOf(f.c.m, f.c.yp, f.c.days, f.c.vol))
      done == [ f EXCEPT !.pc = "done" ]
      approved == [ f EXCEPT !.size = risk.position_size, !.seen = BalanceCents ]
  IN  /\ team.phase = "running"
      /\ f.pc = "judge"
      /\ IF f.c.dir = "Skip" \/ ~risk.approved \/ EdgeBelowStop(p)
         THEN /\ team' = [ team EXCEPT !.futures[i] = done ]
              /\ UNCHANGED << ledger, last >>
         ELSE IF cfg.claude_configured
         THEN /\ team' = [ team EXCEPT !.futures[i] = [ approved EXCEPT !.pc = "validate" ] ]
              /\ UNCHANGED << ledger, last >>
         ELSE /\ team' = [ team EXCEPT !.futures[i] = [ approved EXCEPT !.pc = "done" ] ]
              /\ ExecuteApproved(f.c, risk.position_size)
      /\ UNCHANGED << sim, cfg, now, known, asked, main, mutex >>

\* the final validator's answer (team/mod.rs:376-401): approved or failed goes
\* on to the executor, rejected returns
Validate(i) ==
  LET f == team.futures[i]
  IN  /\ team.phase = "running"
      /\ f.pc = "validate"
      /\ team' = [ team EXCEPT !.futures[i].pc = "done" ]
      /\ \/ ExecuteApproved(f.c, f.size)
         \/ UNCHANGED << ledger, last >>
      /\ UNCHANGED << sim, cfg, now, known, asked, main, mutex >>

\* join_all returns when every future has (team/mod.rs:162)
CycleEnd ==
  /\ team.phase = "running"
  /\ \A i \in 1..Len(team.futures) : team.futures[i].pc = "done"
  /\ team' = Rested(team)
  /\ UNCHANGED << ledger, sim, cfg, now, last, known, asked, main, mutex >>

NextCycle ==
  \/ CycleResolve
  \/ RunCycle
  \/ \E i \in 1..Len(team.futures) : Analyze(i) \/ Validate(i)
  \/ CycleEnd

SpecCycle == InitCycle /\ [][NextCycle]_vars

\* the loop started on a ledger whose last k trades were losses (k = 4 makes
\* the first cycle's action ReduceSize), with up to 4 open positions, one
\* candidate per cycle, the final validator configured or not
MaxReduced == 4

ReduceCfgs ==
  { [ c \in { "max_open_positions", "max_deep_analysis", "claude_configured" } |->
        IF c = "max_open_positions" THEN 4
        ELSE IF c = "max_deep_analysis" THEN 1
        ELSE claude ] @@ RiskCfg : claude \in BOOLEAN }

InitReduce ==
  /\ sim = SimDisabled
  /\ cfg \in ReduceCfgs
  /\ now = 0
  /\ last = NoCall
  /\ known = NothingKnown
  /\ asked = NotAsked
  /\ main = NotRunning
  /\ mutex = Unlocked
  /\ initial_balance = Dollars(InitialDollars)
  /\ balance = Dollars(InitialDollars)
  /\ peak_balance = Dollars(InitialDollars)
  /\ max_drawdown = << 0, 1 >>
  /\ win_count = 0
  /\ open_trades = << >>
  /\ \E k \in { 0, 4 } :
       /\ loss_count = k
       /\ consecutive_losses = k
       /\ trades = [ i \in 1..k |-> LostTrade(i) ]
       /\ team = [ Idle EXCEPT !.max_trades = k + MaxReduced ]

SpecReduce == InitReduce /\ [][NextCycle]_vars

(***************************************************************************)
(* The ledger behind its Mutex with two concurrent callers.  Each ledger   *)
(* function takes self.inner.lock() first and keeps the guard to its       *)
(* return, and none of them is async; here a call is split into the steps  *)
(* its code takes under the guard (execute_trade: the debit, then the two  *)
(* pushes; resolve_with_prices: the drain, the pass, the store of the      *)
(* still-open set with peak and drawdown; close_all_positions: the drain,  *)
(* the pass; the readers: one read).  Outside a call a caller is in its    *)
(* own async code, at an await.  team holds each caller's frame and the    *)
(* ledger as the last completed call left it.                              *)
(***************************************************************************)
Callers == { 1, 2 }

\* lock() succeeds when no guard is alive (a poisoned mutex makes unwrap panic)
MutexAlwaysFree == TRUE

MutexFree == mutex.holder = 0 /\ ~mutex.poisoned

Readers == { "stats", "balance", "open_position_count" }

NoFrame == [ pc |-> "await", op |-> "none", arg |-> << >>, pending |-> << >>,
             still_open |-> << >>, ret |-> << >>, obs |-> << >> ]

\* what a reader returns from the ledger l (a tuple in the order of ledger)
Observed(op, l) ==
  IF op = "balance" THEN << l[1] >>
  ELSE IF op = "open_position_count" THEN << Len(l[4]) >>
  ELSE << l[1], Len(l[4]), l[5], l[6], l[7], l[8], l[9], Len(l[3]) >>

InCritical(t) == team.frames[t].pc \in { "locked", "push", "pass", "store", "unlock" }

InitLock ==
  /\ InitLedger(Dollars(InitialDollars))
  /\ sim = SimDisabled
  /\ cfg = DefaultCfg
  /\ now = 0
  /\ last = NoCall
  /\ known = NothingKnown
  /\ asked = NotAsked
  /\ main = NotRunning
  /\ mutex = Unlocked
  /\ team = [ frames |-> [ t \in Callers |-> NoFrame ], committed |-> ledger ]

\* a caller's await completes and it enters a ledger function with its
\* arguments (the orders and snapshots are those of the text specification)
Call(t) ==
  /\ team.frames[t].pc = "await"
  /\ \E op \in { "execute", "resolve", "close_all" } \cup Readers :
       \E arg \in (IF op = "execute" THEN TextCandidates
                   ELSE IF op \in { "resolve", "close_all" } THEN TextSnapshots
                   ELSE { << >> }) :
         /\ op = "execute" =>
              Len(trades) + Cardinality({ u \in Callers : team.frames[u].op = "execute" })
                < MaxTrades
         /\ team' = [ team EXCEPT !.frames[t] = [ NoFrame EXCEPT !.pc = "call",
                                                                !.op = op, !.arg = arg ] ]
  /\ UNCHANGED << ledger, sim, cfg, now, last, known, asked, main, mutex >>

\* self.inner.lock().unwrap()
Acquire(t) ==
  /\ team.frames[t].pc = "call"
  /\ MutexFree
  /\ mutex' = [ mutex EXCEPT !.holder = t ]
  /\ team' = [ team EXCEPT !.frames[t].pc = "locked" ]
  /\ UNCHANGED << ledger, sim, cfg, now, last, known, asked, main >>

\* execute_trade up to inner.balance -= ... (portfolio.rs:207-331), or its
\* return of None
ExecDebit(t) ==
  LET f == team.frames[t]
      c == f.arg
  IN  /\ f.pc = "locked" /\ f.op = "execute"
      /\ \E id \in NewIds(trades), fill \in FillOutcomes(sim, c.vol),
            gas \in GasDraws(sim.gas_fee_min, sim.gas_fee_max) :
           LET r == execute_trade(balance, id, Len(trades) + 1, c.m, c.dir, c.yp, c.fv,
                                  c.size, sim, c.vol, fill, gas)
           IN  /\ balance' = Debit(balance, r)
               /\ team' = [ team EXCEPT !.frames[t].ret = r,
                                        !.frames[t].pc = IF IsSome(r) THEN "push"
                                                         ELSE "unlock" ]
      /\ UNCHANGED << initial_balance, trades, open_trades, win_count, loss_count,
                      consecutive_losses, peak_balance, max_drawdown,
                      sim, cfg, now, last, known, asked, main, mutex >>

\* inner.trades.push, inner.open_trades.push (portfolio.rs:332-333)
ExecPush(t) ==
  LET f == team.frames[t]
  IN  /\ f.pc = "push"
      /\ trades' = Append(trades, Unwrap(f.ret))
      /\ open_trades' = Append(open_trades, OpenRecord(Unwrap(f.ret)))
      /\ team' = [ team EXCEPT !.frames[t].pc = "unlock" ]
      /\ UNCHANGED << balance, initial_balance, win_count, loss_count, consecutive_losses,
                      peak_balance, max_drawdown,
                      sim, cfg, now, last, known, asked, main, mutex >>

\* inner.open_trades.drain(..).collect() (portfolio.rs:356, 572)
Drain(t) ==
  LET f == team.frames[t]
  IN  /\ f.pc = "locked" /\ f.op \in { "resolve", "close_all" }
      /\ open_trades' = << >>
      /\ team' = [ team EXCEPT !.frames[t].pending = open_trades,
                               !.frames[t].pc = "pass" ]
      /\ UNCHANGED << balance, initial_balance, trades, win_count, loss_count,
                      consecutive_losses, peak_balance, max_drawdown,
                      sim, cfg, now, last, known, asked, main, mutex >>

\* the pass over the drained trades (portfolio.rs:359-550, 574-647)
Pass(t) ==
  LET f == team.frames[t]
  IN  /\ f.pc = "pass"
      /\ \E gases \in GasSeqs(Len(f.pending)) :
           LET acc == IF f.op = "resolve"
                      THEN ResolveLoop(f.pending, 1, StartAcc, f.arg, cfg.exit_tp_pct,
                                       cfg.exit_sl_pct, now, gases)
                      ELSE CloseLoop(f.pending, 1, StartAcc, f.arg, gases)
           IN  /\ balance' = acc.balance
               /\ trades' = acc.trades
               /\ win_count' = acc.win_count
               /\ loss_count' = acc.loss_count
               /\ consecutive_losses' = acc.consecutive_losses
               /\ team' = [ team EXCEPT !.frames[t].still_open = acc.still_open,
                                        !.frames[t].ret = acc.out,
                                        !.frames[t].pc = IF f.op = "resolve" THEN "store"
                                                         ELSE "unlock" ]
      /\ UNCHANGED << initial_balance, open_trades, peak_balance, max_drawdown,
                      sim, cfg, now, last, known, asked, main, mutex >>

\* inner.open_trades = still_open, then peak and drawdown (portfolio.rs:552-562)
Store(t) ==
  LET f == team.frames[t]
      peak == PeakAfter(peak_balance, balance)
  IN  /\ f.pc = "store"
      /\ open_trades' = f.still_open
      /\ peak_balance' = peak
      /\ max_drawdown' = DrawdownAfter(max_drawdown, peak, balance)
      /\ team' = [ team EXCEPT !.frames[t].pc = "unlock" ]
      /\ UNCHANGED << balance, initial_balance, trades, win_count, loss_count,
                      consecutive_losses, sim, cfg, now, last, known, asked, main, mutex >>

\* the read of a getter or of stats_with_markets (portfolio.rs:178-192, 656-724)
Read(t) ==
  LET f == team.frames[t]
  IN  /\ f.pc = "locked" /\ f.op \in Readers
      /\ team' = [ team EXCEPT !.frames[t].obs = Observed(f.op, ledger),
                               !.frames[t].pc = "unlock" ]
      /\ UNCHANGED << ledger, sim, cfg, now, last, known, asked, main, mutex >>

\* the guard is dropped at the function's return; the caller goes back to its
\* own code and its next await
Release(t) ==
  LET f == team.frames[t]
  IN  /\ f.pc = "unlock"
      /\ mutex' = [ mutex EXCEPT !.holder = 0 ]
      /\ last' = [ op |-> f.op, ret |-> f.ret ]
      /\ team' = [ team EXCEPT !.frames[t] = NoFrame, !.committed = ledger ]
      /\ UNCHANGED << ledger, sim, cfg, now, known, asked, main >>

NextLock ==
  \E t \in Callers :
    \/ Call(t) \/ Acquire(t) \/ ExecDebit(t) \/ ExecPush(t) \/ Drain(t)
    \/ Pass(t) \/ Store(t) \/ Read(t) \/ Release(t)

SpecLock == InitLock /\ [][NextLock]_vars

(***************************************************************************)
(* The proxy's RateLimiter (proxy/src/middleware/rate_limit.rs) with two   *)
(* request handlers on the multi-threaded runtime.  A check reads the      *)
(* clock first and takes the map entry (the DashMap shard lock) afterwards *)
(* so another handler can run between the two.  team holds the limiter:    *)
(* its two maps, the handlers' frames and, for each key, the clock readings *)
(* of the checks that returned Ok.                                         *)
(***************************************************************************)
WindowSeconds == 60
StaleSeconds == 120
MaxTicks == 3
MaxCalls == 3
AgentKeys == { "agent1", "agent2" }
IpKeys == { "1.2.3.4", "5.6.7.8" }
LimitSteps == { 1, 59 }
LimitMaxes == { 0, 1, 2 }

\* Utc::now().format("%Y-%m-%d"): the calendar day of an instant in seconds
DayOf(t) == t \div (24 * 60 * 60)

\* the clock starts one window before midnight
LimitStart == 24 * 60 * 60 - WindowSeconds

\* a map entry (count, window start), created by or_insert when absent
Entry(e, start) == IF IsSome(e) THEN Unwrap(e) ELSE [ count |-> 0, start |-> start ]

\* the counter after the reset test, then the limit test and the increment
Counted(cur, max) ==
  IF cur.count >= max
  THEN [ entry |-> Some(cur), ok |-> FALSE, count |-> 0 ]
  ELSE [ entry |-> Some([ cur EXCEPT !.count = cur.count + 1 ]), ok |-> TRUE,
         count |-> cur.count + 1 ]

\* check_agent_limit from its entry() on, with the day it read before
check_agent_limit(e, today, max) ==
  LET ins == Entry(e, today)
  IN  Counted(IF ins.start # today THEN [ count |-> 0, start |-> today ] ELSE ins, max)

\* check_ip_limit from its entry() on, with the instant it read before
check_ip_limit(e, t, max) ==
  LET ins == Entry(e, t)
  IN  Counted(IF t - ins.start >= WindowSeconds THEN [ count |-> 0, start |-> t ] ELSE ins,
              max)

\* retain: the agent entries of today, the IP entries younger than 2 minutes
KeptAgent(e, today) == IF IsSome(e) /\ Unwrap(e).start = today THEN e ELSE None
KeptIp(e, t) == IF IsSome(e) /\ t - Unwrap(e).start < StaleSeconds THEN e ELSE None

IdleFrame == [ pc |-> "idle", key |-> "", today |-> 0, at |-> 0 ]

\* RateLimiter::new(max_trades_per_agent_per_day, max_requests_per_ip_per_minute)
InitLimit ==
  /\ InitLedger(Dollars(InitialDollars))
  /\ sim = SimDisabled
  /\ cfg = DefaultCfg
  /\ now = LimitStart
  /\ last = NoCall
  /\ known = NothingKnown
  /\ asked = NotAsked
  /\ main = NotRunning
  /\ mutex = Unlocked
  /\ \E max \in LimitMaxes :
       team = [ max_trades_per_agent_per_day |-> max,
                max_requests_per_ip_per_minute |-> max,
                agent_daily |-> [ k \in AgentKeys |-> None ],
                ip_minute |-> [ k \in IpKeys |-> None ],
                frames |-> [ t \in Callers |-> IdleFrame ],
                agent_ok |-> [ k \in AgentKeys |-> << >> ],
                ip_ok |-> [ k \in IpKeys |-> << >> ],
                calls |-> 0, ticks |-> 0, raced |-> FALSE ]

\* a handler (or the aggregator's cleanup task) reads the clock: lines 29, 56, 84-85
ReadClock(t) ==
  /\ team.frames[t].pc = "idle"
  /\ team.calls < MaxCalls
  /\ \E f \in [ pc : { "agent" }, key : AgentKeys, today : { DayOf(now) }, at : { now } ]
              \cup [ pc : { "ip" }, key : IpKeys, today : { DayOf(now) }, at : { now } ]
              \cup [ pc : { "cleanup" }, key : { "" }, today : { DayOf(now) }, at : { now } ] :
       team' = [ team EXCEPT !.frames[t] = f, !.calls = team.calls + 1 ]
  /\ UNCHANGED << ledger, sim, cfg, now, last, known, asked, main, mutex >>

\* whether the clock has left the window the handler read it in
Late(f) == IF f.pc = "ip" THEN now # f.at ELSE DayOf(now) # f.today

\* check_agent_limit, lines 31-50
CheckAgentLimit(t) ==
  LET f == team.frames[t]
      r == check_agent_limit(team.agent_daily[f.key], f.today,
                             team.max_trades_per_agent_per_day)
  IN  /\ f.pc = "agent"
      /\ team' = [ team EXCEPT !.frames[t] = IdleFrame,
                               !.agent_daily[f.key] = r.entry,
                               !.agent_ok[f.key] = IF r.ok THEN Append(@, f.at) ELSE @,
                               !.raced = @ \/ Late(f) ]
      /\ last' = [ op |-> "check_agent_limit", ret |-> << f.key, r.ok, r.count >> ]
      /\ UNCHANGED << ledger, sim, cfg, now, known, asked, main, mutex >>

\* check_ip_limit, lines 58-78
CheckIpLimit(t) ==
  LET f == team.frames[t]
      r == check_ip_limit(team.ip_minute[f.key], f.at, team.max_requests_per_ip_per_minute)
  IN  /\ f.pc = "ip"
      /\ team' = [ team EXCEPT !.frames[t] = IdleFrame,
                               !.ip_minute[f.key] = r.entry,
                               !.ip_ok[f.key] = IF r.ok THEN Append(@, f.at) ELSE @,
                               !.raced = @ \/ Late(f) ]
      /\ last' = [ op |-> "check_ip_limit", ret |-> << f.key, r.ok, r.count >> ]
      /\ UNCHANGED << ledger, sim, cfg, now, known, asked, main, mutex >>

\* cleanup_stale_entries, lines 88-92
CleanupStaleEntries(t) ==
  LET f == team.frames[t]
  IN  /\ f.pc = "cleanup"
      /\ team' = [ team EXCEPT
                     !.frames[t] = IdleFrame,
                     !.agent_daily = [ k \in AgentKeys |-> KeptAgent(@[k], f.today) ],
                     !.ip_minute = [ k \in IpKeys |-> KeptIp(@[k], f.at) ],
                     !.raced = @ \/ Late(f) ]
      /\ last' = [ op |-> "cleanup_stale_entries", ret |-> << >> ]
      /\ UNCHANGED << ledger, sim, cfg, now, known, asked, main, mutex >>

\* the wall clock moves on
LimitTick ==
  /\ team.ticks < MaxTicks
  /\ \E d \in LimitSteps : now' = now + d
  /\ team' = [ team EXCEPT !.ticks = team.ticks + 1 ]
  /\ UNCHANGED << ledger, sim, cfg, last, known, asked, main, mutex >>

NextLimit ==
  \/ \E t \in Callers : \/ ReadClock(t)
                        \/ CheckAgentLimit(t)
                        \/ CheckIpLimit(t)
                        \/ CleanupStaleEntries(t)
  \/ LimitTick

SpecLimit == InitLimit /\ [][NextLimit]_vars

(***************************************************************************)
(* Properties                                                              *)
(***************************************************************************)
\* C1: every execute_trade call leaves the cash balance >= 0, and the trade it
\* returns has a bet_size no larger than the balance held before the call,
\* also after a partial fill or the shrink that makes room for the fees.
C1_ExecuteWithinBalance ==
  [][ last'.op = "execute"
      => /\ balance' >= 0
         /\ last'.ret # << >> => last'.ret[1].bet_size <= balance ]_vars

\* a trade whose stake was shrunk to fit the fees: the whole balance is used
C1_ShrunkToFit ==
  /\ last.op = "execute" /\ last.ret # << >>
  /\ sim.fees_enabled /\ sim.fills_enabled
  /\ last.ret[1].entry_gas_fee > 0 /\ last.ret[1].maker_taker_fee > 0
  /\ last.ret[1].bet_size \notin { c.size : c \in Candidates }
  /\ balance = 0

OpenSeqs(ot) == { ot[i].seq : i \in 1..Len(ot) }
OpenBySeq(ot, q) == ot[CHOOSE i \in 1..Len(ot) : ot[i].seq = q]
PlaceOf(ot, q) == CHOOSE i \in 1..Len(ot) : ot[i].seq = q
IsClosing(op) == op \in { "resolve", "close_all" }

\* the credit the claim gives a closed trade
C2_Credit(open, closed) ==
  Max(0, closed.bet_size + closed.pnl - closed.exit_gas_fee
         - (closed.maker_taker_fee - open.maker_taker_fee) - closed.platform_fee)

RECURSIVE C2_Credits(_, _, _)
C2_Credits(ot, ret, k) ==
  IF k > Len(ret) THEN 0
  ELSE C2_Credit(OpenBySeq(ot, ret[k].seq), ret[k]) + C2_Credits(ot, ret, k + 1)

C3_PlanFields(t) ==
  << t.trade_mode, t.take_profit, t.stop_loss, t.max_hold_until,
     t.judge_fair_value, t.judge_confidence >>

\* C3: right after the executor opened a trade, the record the ledger holds in
\* its open set carries the same mode, take-profit, stop-loss, max-hold, judge
\* fair value and judge confidence as the trade returned to the caller.
C3_LedgerKeepsPlan ==
  (last.op = "execute" /\ last.ret # << >>)
    => /\ open_trades # << >>
       /\ open_trades[Len(open_trades)].seq = last.ret[1].seq
       /\ C3_PlanFields(open_trades[Len(open_trades)]) = C3_PlanFields(last.ret[1])

\* the sum over the closed trades of bet_size + pnl, floored at 0 or not
RECURSIVE C4_Returned(_, _, _)
C4_Returned(ret, k, floored) ==
  IF k > Len(ret) THEN 0
  ELSE (IF floored THEN Max(0, ret[k].bet_size + ret[k].pnl)
        ELSE ret[k].bet_size + ret[k].pnl)
       + C4_Returned(ret, k + 1, floored)

C4_Scenario(t) ==
  /\ initial_balance = Dollars(100) /\ Len(trades) = 1
  /\ t.bet_size = Dollars(20) /\ t.entry_price = 4 * (PRICE_ONE \div 10)
  /\ t.exit_price = Some(6 * (PRICE_ONE \div 10))

C5_ClosedRecordImmutable ==
  [][ \A i \in 1..Len(trades) :
        trades[i].status # "Open" => (Len(trades') >= i /\ trades'[i] = trades[i]) ]_vars

\* the order of the open set
C9_InOpenOrder(ot, ret) ==
  \A j, k \in 1..Len(ret) : j < k => PlaceOf(ot, ret[j].seq) < PlaceOf(ot, ret[k].seq)

RECURSIVE C9_Streak(_, _, _)
C9_Streak(streak, ret, k) ==
  IF k > Len(ret) THEN streak
  ELSE C9_Streak(IF ret[k].pnl > 0 THEN 0 ELSE streak + 1, ret, k + 1)

\* C9: a close with gross pnl > 0 sets the streak to 0, a close with gross
\* pnl <= 0 adds 1, the closes of one call apply in open-set order, and no
\* other ledger operation changes the streak.
C9_StreakPerClose ==
  [][ IF IsClosing(last'.op)
      THEN /\ C9_InOpenOrder(open_trades, last'.ret)
           /\ consecutive_losses' = C9_Streak(consecutive_losses, last'.ret, 1)
      ELSE consecutive_losses' = consecutive_losses ]_vars

\* one call closed a win and then a loss: the streak is 1, not 0
C9_WinThenLoss ==
  /\ IsClosing(last.op) /\ Len(last.ret) = 2
  /\ last.ret[1].pnl > 0 /\ last.ret[2].pnl = 0
  /\ consecutive_losses = 1

\* the reason the call gave for closing the open trade t, or "open"
ReasonFor(ret, t) ==
  IF \E k \in 1..Len(ret) : ret[k].seq = t.seq
  THEN Unwrap(ret[CHOOSE k \in 1..Len(ret) : ret[k].seq = t.seq].exit_reason)
  ELSE "open"

\* C7: a trade whose market is absent from the snapshot of a resolve is closed
\* in that call with reason MarketResolved, at the price its side had in the
\* latest snapshot that held the market.
C7_AbsentClosedAtLastKnown ==
  [][ last'.op = "resolve"
      => \A i \in 1..Len(open_trades) :
           LET t == open_trades[i]
           IN  asked'.snap[1][t.market_id] = ABSENT
                 => \E k \in 1..Len(last'.ret) :
                      /\ last'.ret[k].seq = t.seq
                      /\ last'.ret[k].exit_reason = Some("MarketResolved")
                      /\ last'.ret[k].raw_exit_price
                           = SidePrice(t.direction, known[t.market_id]) ]_vars

\* C8: a Scalp trade with both levels stored exits with TakeProfit whenever the
\* price of its side is at or above the take-profit, also when it is at or
\* below the stop-loss; StopLoss is given only when the take-profit is not
\* reached, TimeExpiry only when neither level is.
C8_ScalpTakeProfitFirst ==
  [][ last'.op = "resolve"
      => \A i \in 1..Len(open_trades) :
           LET t == open_trades[i]
               yes == asked'.snap[1][t.market_id]
           IN  ( /\ t.trade_mode = Some("SCALP")
                 /\ IsSome(t.take_profit) /\ IsSome(t.stop_loss)
                 /\ yes # ABSENT )
               => LET p == Level(Unwrap(SidePrice(t.direction, yes)))
                      reason == ReasonFor(last'.ret, t)
                  IN  /\ p >= Unwrap(t.take_profit) => reason = "TakeProfit"
                      /\ reason = "StopLoss"
                           => p < Unwrap(t.take_profit) /\ p <= Unwrap(t.stop_loss)
                      /\ (p < Unwrap(t.take_profit) /\ p <= Unwrap(t.stop_loss))
                           => reason = "StopLoss"
                      /\ reason = "TimeExpiry"
                           => p < Unwrap(t.take_profit) /\ p > Unwrap(t.stop_loss)
                      /\ reason \in { "TakeProfit", "StopLoss", "TimeExpiry", "open" } ]_vars

\* a Scalp trade closed with TakeProfit at a price that is also at or below
\* its stop-loss
C8_BothLevelsCrossed ==
  /\ last.op = "resolve"
  /\ \E k \in 1..Len(last.ret) :
       /\ last.ret[k].trade_mode = Some("SCALP")
       /\ last.ret[k].exit_reason = Some("TakeProfit")
       /\ Level(Unwrap(last.ret[k].raw_exit_price)) <= Unwrap(last.ret[k].stop_loss)
       /\ Level(Unwrap(last.ret[k].raw_exit_price)) >= Unwrap(last.ret[k].take_profit)

\* C10: a resolve called again right away with the same snapshot and the same
\* thresholds returns nothing and leaves the open set, balance, counters,
\* streak, peak balance and max drawdown as they were.
C10_SecondResolveIdle ==
  [][ (last'.op = "resolve" /\ asked'.times = 2)
      => /\ last'.ret = << >>
         /\ open_trades' = open_trades
         /\ balance' = balance
         /\ win_count' = win_count /\ loss_count' = loss_count
         /\ consecutive_losses' = consecutive_losses
         /\ peak_balance' = peak_balance
         /\ max_drawdown' = max_drawdown ]_vars

\* a second call in a row that found a trade with a stored plan still open,
\* after the first had closed the other trade
C10_SecondCallDone ==
  /\ last.op = "resolve" /\ asked.times = 2 /\ last.ret = << >>
  /\ Len(open_trades) = 1 /\ IsSome(open_trades[1].take_profit)
  /\ trades[2].status # "Open"
  /\ balance < peak_balance

\* C6: once a shutdown is requested while the loop is in its normal sleep, its
\* fast price-check loop, the sleep of the Pause branch or the sleep of the
\* SkipCycle branch, close_all_positions is called in the end, and it is
\* never called twice.
C6_ShutdownClosesOnce ==
  /\ [](main.closes <= 1)
  /\ [](main.asked_at \in { "sleep", "fast", "pause_sleep", "skip_sleep" }
          => <>(main.closes = 1))

\* C14: whenever execute_trade returns no trade (size not positive after the
\* clamp, simulated rejection, Skip, raw price not positive, nothing left after
\* the fees) the ledger is exactly what it was before the call: balance,
\* history, open set, counters, streak, peak balance and max drawdown.
C14_RefusalLeavesLedger ==
  [][ (last'.op = "execute" /\ last'.ret = << >>) => ledger' = ledger ]_vars

\* an order refused because the fees leave nothing to stake, on a ledger that
\* holds an open trade and some cash
C14_RefusedForFees ==
  /\ last.op = "execute" /\ last.ret = << >> /\ last.why = "fees"
  /\ open_trades # << >> /\ balance > 0

\* the trade of seq q among the trades a call returned, if it is there
ReturnedOf(ret, q) == { k \in 1..Len(ret) : ret[k].seq = q }

\* the raw price of the trade's side in a snapshot that holds its market
C17_CurrentPrice(t, snap) ==
  IF t.direction = "No" THEN PRICE_ONE - snap[t.market_id] ELSE snap[t.market_id]

\* unrealized loss below -30% of the stake and judge confidence below 0.70
C17_ValveOpen(t, snap) ==
  /\ 10 * ((C17_CurrentPrice(t, snap) - t.entry_price) * t.shares) < 0 - 3 * t.bet_size
  /\ Unwrap(t.judge_confidence) < 7 * (PCT_ONE \div 10)

C18_FairOfSide(t) ==
  IF t.direction = "No" THEN PRICE_ONE - Unwrap(t.judge_fair_value)
  ELSE Unwrap(t.judge_fair_value)

\* (current - entry) / (fair - entry) >= 0.60, all three of the position's side
C18_Captured(t, snap) ==
  LET total_edge == C18_FairOfSide(t) - t.entry_price
      moved == C17_CurrentPrice(t, snap) - t.entry_price
  IN  \/ total_edge > 0 /\ 10 * moved >= 6 * total_edge
      \/ total_edge < 0 /\ 10 * moved <= 6 * total_edge

C15_ResolveWould(snap, gases) ==
  ResolveLoop(open_trades, 1, StartAcc, snap, cfg.exit_tp_pct, cfg.exit_sl_pct, now, gases)

C15_SameButReason(a, b) ==
  [ a EXCEPT !.exit_reason = None ] = [ b EXCEPT !.exit_reason = None ]

\* the cash, counters, streak and closed records of a close-all are those of
\* a resolve that closes every trade
C15_SameBooks(r) ==
  /\ balance' = r.balance
  /\ win_count' = r.win_count
  /\ loss_count' = r.loss_count
  /\ consecutive_losses' = r.consecutive_losses
  /\ Len(trades') = Len(r.trades)
  /\ \A i \in 1..Len(trades') : C15_SameButReason(trades'[i], r.trades[i])
  /\ Len(last'.ret) = Len(r.out)
  /\ \A k \in 1..Len(last'.ret) : C15_SameButReason(last'.ret[k], r.out[k])

\* C15: close_all_positions leaves the ledger as resolve_with_prices would on
\* the same open trades, snapshot and fee draws if every trade triggered an
\* exit: the same cash balance, win/loss counters, streak, peak balance, max
\* drawdown and closed records, but for the exit reason ManualStop.
C15_CloseAllAsResolve ==
  [][ last'.op = "close_all"
      => \A snap \in StoredSnapshots, gases \in GasSeqs(Len(open_trades)) :
           LET c == CloseLoop(open_trades, 1, StartAcc, snap, gases)
               r == C15_ResolveWould(snap, gases)
           IN  (/\ c.out = last'.ret /\ c.trades = trades'
                /\ known' = KnownAfter(snap)
                /\ Len(r.out) = Len(open_trades))
               => /\ C15_SameBooks(r)
                  /\ peak_balance' = PeakAfter(peak_balance, r.balance)
                  /\ max_drawdown'
                       = DrawdownAfter(max_drawdown, PeakAfter(peak_balance, r.balance),
                                       r.balance) ]_vars

\* C16: no ledger operation panics, whatever the stored trades and the inputs,
\* a question cut inside a character at byte 35 or 40 included: the lock is
\* never poisoned, and no resolve_with_prices call ends with the open set
\* drained and not put back.
C16_NeverPanics ==
  /\ ~mutex.poisoned
  /\ last.op # "panic"

\* C20: for every bankroll, whatever kelly_bet returns is at most the cap
\* fraction passed in times the bankroll, at most 80% of the bankroll, at most
\* the bankroll, and either 0 or at least the minimum trade of 0.10.
C20_KellyWithinCap ==
  IsSome(team.kelly) =>
    LET k == Unwrap(team.kelly)
    IN  /\ k.bet_size * team.in.max_pct[2] <= team.in.bankroll * team.in.max_pct[1]
        /\ k.bet_size * KellyCeiling[2] <= team.in.bankroll * KellyCeiling[1]
        /\ k.bet_size <= team.in.bankroll
        /\ k.bet_size = 0 \/ k.bet_size >= MinTradeCents

\* the same with the cap the code applies: the passed cap times the scale
\* factor of the bankroll, up to the half cent of round_dp(2)
C20_KellyWithinScaledCap ==
  IsSome(team.kelly) =>
    LET k == Unwrap(team.kelly)
        cap == FracMin(FracMul(team.in.max_pct, ScaleFactor(team.in.bankroll)), KellyCeiling)
    IN  /\ 2 * k.bet_size * cap[2] <= 2 * team.in.bankroll * cap[1] + cap[2]
        /\ k.bet_size <= team.in.bankroll
        /\ k.bet_size = 0 \/ k.bet_size >= MinTradeCents

C20_Sized ==
  /\ IsSome(team.kelly)
  /\ Unwrap(team.kelly).bet_size > 0
  /\ team.in.bankroll > KellyScaleBase

\* C19: a verdict that passed the kill, reserve, confidence and survival
\* checks is rejected by the edge check exactly when the judge fair value and
\* the current market price differ by more than 0.35.
C19_PastEarlierChecks ==
  /\ IsSome(team.risk)
  /\ Unwrap(team.risk).reason \notin { "skip", "kill", "reserve", "confidence", "dead" }

C19_EdgeAgainstMarket ==
  C19_PastEarlierChecks =>
    (Unwrap(team.risk).reason = "edge" <=> Abs(team.in.fv - team.in.yp) > MaxEdge)

\* what the code tests: the distance of the fair value from 0.50
C19_EdgeAgainstHalf ==
  C19_PastEarlierChecks =>
    (Unwrap(team.risk).reason = "edge" <=> Abs(team.in.fv - PRICE_ONE \div 2) > MaxEdge)

C19_RejectedForEdge ==
  /\ IsSome(team.risk)
  /\ Unwrap(team.risk).reason = "edge"
  /\ Abs(team.in.fv - team.in.yp) <= MaxEdge

\* C11: the number of open positions never exceeds max_open_positions, whatever
\* the interleaving of the candidates of a cycle.
C11_OpenWithinLimit == Len(open_trades) <= cfg.max_open_positions

\* the check main makes holds where it is made: a cycle is started only below
\* the limit
C11_StartedBelowLimit ==
  [][ (team.phase = "resolved" /\ team'.phase = "running")
        => Len(open_trades) < cfg.max_open_positions ]_vars

\* the reserve in money units
ReserveOf(config) ==
  ((config.initial_balance * config.balance_reserve_pct[1])
     \div config.balance_reserve_pct[2]) * CENT

\* C12: after any trade the risk manager approved has been executed, entry gas
\* and fees included, the balance is at least the reserve
\* (initial_balance * balance_reserve_pct).
C12_ReserveKept ==
  (last.op = "execute" /\ IsSome(last.ret)) => balance >= ReserveOf(cfg)

\* one approved trade alone takes the balance below the reserve by its fees
C12_BelowByFees ==
  /\ Len(trades) = 1
  /\ balance < ReserveOf(cfg)
  /\ balance + Unwrap(last.ret).entry_gas_fee = ReserveOf(cfg)

\* two candidates approved against the same balance are both executed
C12_BelowByRace ==
  /\ Len(trades) = 2
  /\ balance < ReserveOf(cfg) - Dollars(1)
  /\ \A i \in 1..Len(team.futures) : team.futures[i].seen = 100 * InitialDollars

\* the ledger a whole call leaves when run alone on the ledger l
\* (execute_trade returning trade r; resolve_with_prices and
\* close_all_positions on snapshot arg returning the closed trades out)
AccOf(l) ==
  [ balance |-> l[1], trades |-> l[3], win_count |-> l[5], loss_count |-> l[6],
    consecutive_losses |-> l[7], out |-> << >>, still_open |-> << >> ]

RanAlone(f, l) ==
  IF f.op = "execute"
  THEN IF IsSome(f.ret)
       THEN /\ \E id \in NewIds(l[3]) :
                 f.ret = execute_trade(l[1], id, Len(l[3]) + 1, f.arg.m, f.arg.dir,
                                       f.arg.yp, f.arg.fv, f.arg.size, sim, f.arg.vol,
                                       [ kind |-> "full", pct |-> PCT_ONE ], 0)
            /\ ledger = << Unwrap(f.ret).balance_after, l[2], Append(l[3], Unwrap(f.ret)),
                           Append(l[4], Unwrap(f.ret)), l[5], l[6], l[7], l[8], l[9] >>
       ELSE ledger = l
  ELSE IF f.op = "resolve"
  THEN LET acc == ResolveLoop(l[4], 1, AccOf(l), f.arg, cfg.exit_tp_pct, cfg.exit_sl_pct,
                              now, [ i \in 1..Len(l[4]) |-> 0 ])
           peak == PeakAfter(l[8], acc.balance)
       IN  /\ f.ret = acc.out
           /\ ledger = << acc.balance, l[2], acc.trades, acc.still_open, acc.win_count,
                          acc.loss_count, acc.consecutive_losses, peak,
                          DrawdownAfter(l[9], peak, acc.balance) >>
  ELSE IF f.op = "close_all"
  THEN LET acc == CloseLoop(l[4], 1, AccOf(l), f.arg, [ i \in 1..Len(l[4]) |-> 0 ])
       IN  /\ f.ret = acc.out
           /\ ledger = << acc.balance, l[2], acc.trades, << >>, acc.win_count,
                          acc.loss_count, acc.consecutive_losses, l[8], l[9] >>
  ELSE /\ ledger = l
       /\ f.obs = Observed(f.op, l)

\* C13: under any interleaving of two callers of execute_trade,
\* resolve_with_prices, close_all_positions, stats_with_markets and the getters,
\* at most one caller is between lock and unlock, a call starts its work on the
\* ledger as the last completed call left it, what a call returns and leaves at
\* its unlock is what it returns and leaves when run alone on that ledger, and
\* no caller is at an await while it holds the lock.
C13_CallsRunAsIfAlone ==
  /\ \A t, u \in Callers : (t # u /\ InCritical(t)) => ~InCritical(u)
  /\ \A t \in Callers :
       LET f == team.frames[t]
       IN  /\ f.pc = "locked" => ledger = team.committed
           /\ f.pc = "unlock" => RanAlone(f, team.committed)
           /\ f.pc = "await" => mutex.holder # t
           /\ InCritical(t) => mutex.holder = t

\* a resolve has drained a non-empty open set and not yet stored it, while the
\* other caller is waiting to read
C13_ReaderWaitsOnDrained ==
  \E t, u \in Callers :
    /\ team.frames[t].op = "resolve" /\ team.frames[t].pc \in { "pass", "store" }
    /\ team.frames[t].pending # << >>
    /\ open_trades = << >>
    /\ team.frames[u].pc = "call" /\ team.frames[u].op \in Readers

\* C21: kelly_bet returns full_kelly = (p*b - q)/b with b = (1 - price)/price
\* and q = 1 - p for the traded side (p and price complemented for No); it
\* returns stake 0 when that is <= 0, when p or price is outside (0,1) or when
\* the direction is Skip; and with bankroll 100, probability 0.65, price 0.50,
\* multiplier 1 and cap 1 it returns full_kelly 0.30 and stake 30.
\* Over the common denominator price * PRICE_ONE, p*b - q is KellyNum and b
\* is KellyDen.
C21_Side ==
  [ p |-> IF team.in.dir = "No" THEN PRICE_ONE - team.in.fv ELSE team.in.fv,
    price |-> IF team.in.dir = "No" THEN PRICE_ONE - team.in.yp ELSE team.in.yp ]

C21_KellyNum ==
  C21_Side.p * (PRICE_ONE - C21_Side.price) - (PRICE_ONE - C21_Side.p) * C21_Side.price

C21_KellyDen == (PRICE_ONE - C21_Side.price) * PRICE_ONE

C21_NoStake ==
  \/ team.in.dir = "Skip"
  \/ C21_Side.price <= 0 \/ C21_Side.price >= PRICE_ONE
  \/ C21_Side.p <= 0 \/ C21_Side.p >= PRICE_ONE
  \/ C21_KellyNum <= 0

C21_Example ==
  /\ team.in.bankroll = 100 * 100 /\ team.in.fv = 65 * (PRICE_ONE \div 100)
  /\ team.in.yp = PRICE_ONE \div 2 /\ team.in.dir = "Yes"
  /\ team.in.kf = << 1, 1 >> /\ team.in.max_pct = << 1, 1 >>

C21_KellyFormula ==
  IsSome(team.kelly) =>
    LET k == Unwrap(team.kelly)
    IN  /\ C21_NoStake => (k.bet_size = 0 /\ k.full_kelly = << 0, 1 >>)
        /\ ~C21_NoStake => k.full_kelly[1] * C21_KellyDen = k.full_kelly[2] * C21_KellyNum
        /\ C21_Example => (k.full_kelly = << 3, 10 >> /\ k.bet_size = 30 * 100)

C21_ExampleSized ==
  /\ IsSome(team.kelly)
  /\ C21_Example
  /\ Unwrap(team.kelly).bet_size = 30 * 100

\* the cap survival_adjust returns one cent above the bankroll drawn
C22_NextCent ==
  survival_adjust(team.in.bankroll + 1, cfg.kill_threshold, team.in.max_pct).pct

C22_InBuffer ==
  /\ team.in.bankroll > cfg.kill_threshold
  /\ team.in.bankroll < 3 * cfg.kill_threshold

\* C22: survival_adjust returns (0, dead) exactly when bankroll <= kill
\* threshold, the normal fraction when bankroll >= 3 * kill threshold, inside
\* the buffer zone a fraction strictly between the 1% floor and 50% of the
\* normal fraction that does not decrease as the bankroll grows, and never more
\* than the normal fraction.
C22_SurvivalBands ==
  IsSome(team.survival) =>
    LET s == Unwrap(team.survival)
        normal == team.in.max_pct
    IN  /\ s.dead <=> team.in.bankroll <= cfg.kill_threshold
        /\ s.dead => s.pct = << 0, 1 >>
        /\ team.in.bankroll >= 3 * cfg.kill_threshold => s.pct = normal
        /\ C22_InBuffer =>
             /\ FracLess(1, 100, s.pct[1], s.pct[2])
             /\ FracLess(s.pct[1], s.pct[2], normal[1], 2 * normal[2])
             /\ team.in.bankroll + 1 < 3 * cfg.kill_threshold =>
                  ~FracLess(C22_NextCent[1], C22_NextCent[2], s.pct[1], s.pct[2])
        /\ ~FracLess(normal[1], normal[2], s.pct[1], s.pct[2])

\* what the code gives inside the buffer zone: at least the floor, at most the
\* larger of the floor and 50% of the normal fraction
C22_SurvivalFloored ==
  IsSome(team.survival) =>
    LET s == Unwrap(team.survival)
        normal == team.in.max_pct
    IN  /\ s.dead <=> team.in.bankroll <= cfg.kill_threshold
        /\ s.dead => s.pct = << 0, 1 >>
        /\ team.in.bankroll >= 3 * cfg.kill_threshold => s.pct = normal
        /\ C22_InBuffer =>
             /\ ~FracLess(s.pct[1], s.pct[2], 1, 100)
             /\ \/ s.pct = << 1, 100 >>
                \/ FracLess(s.pct[1], s.pct[2], normal[1], 2 * normal[2])
             /\ team.in.bankroll + 1 < 3 * cfg.kill_threshold =>
                  ~FracLess(C22_NextCent[1], C22_NextCent[2], s.pct[1], s.pct[2])

C22_AtFloor ==
  /\ IsSome(team.survival)
  /\ C22_InBuffer
  /\ Unwrap(team.survival).pct = << 1, 100 >>
  /\ team.in.max_pct = << 8, 100 >>

\* C23: above the kill threshold the cap survival_adjust returns has no jump:
\* the caps of two bankrolls one cent apart differ by at most one hundredth of
\* the normal fraction.
C23_NoJump ==
  (IsSome(team.survival) /\ team.in.bankroll > cfg.kill_threshold) =>
    LET s == Unwrap(team.survival).pct
        n == C22_NextCent
        normal == team.in.max_pct
    IN  ~FracLess(normal[1], 100 * normal[2],
                  Abs(n[1] * s[2] - s[1] * n[2]), n[2] * s[2])

\* the same away from the upper edge of the buffer zone
C23_NoJumpInside ==
  (IsSome(team.survival) /\ team.in.bankroll > cfg.kill_threshold
     /\ team.in.bankroll + 1 # 3 * cfg.kill_threshold) =>
    LET s == Unwrap(team.survival).pct
        n == C22_NextCent
        normal == team.in.max_pct
    IN  ~FracLess(normal[1], 100 * normal[2],
                  Abs(n[1] * s[2] - s[1] * n[2]), n[2] * s[2])

\* the itemised costs of a trade record
C24_Costs(t) ==
  { t.entry_gas_fee, t.exit_gas_fee, t.entry_slippage, t.exit_slippage,
    t.platform_fee, t.maker_taker_fee }

\* C24: on every trade the ledger has opened or closed, each itemised cost
\* (entry and exit gas, entry and exit slippage cost, platform fee, maker/taker
\* fee) is >= 0, and the effective entry price and the effective exit price
\* are in [0, 1].
C24_CostsAndPrices ==
  \A i \in 1..Len(trades) :
    LET t == trades[i]
    IN  /\ \A c \in C24_Costs(t) : c >= 0
        /\ t.entry_price >= 0 /\ t.entry_price <= PRICE_ONE
        /\ IsSome(t.exit_price) =>
             (Unwrap(t.exit_price) >= 0 /\ Unwrap(t.exit_price) <= PRICE_ONE)

\* the same without the lower bound of the exit price
C24_CostsAndEntry ==
  \A i \in 1..Len(trades) :
    LET t == trades[i]
    IN  /\ \A c \in C24_Costs(t) : c >= 0
        /\ t.entry_price > 0 /\ t.entry_price <= 99 * (PRICE_ONE \div 100)
        /\ IsSome(t.exit_price) => Unwrap(t.exit_price) <= PRICE_ONE

\* the number of instants of s that lie in [lo, hi)
C25_OkIn(s, lo, hi) == Cardinality({ i \in 1..Len(s) : s[i] >= lo /\ s[i] < hi })

C25_Count(e) == IF IsSome(e) THEN Unwrap(e).count ELSE 0

\* at most max Ok results per calendar day and per window of the entry, and an
\* Ok result carries a count in 1..max
C25_AtMostMax ==
  /\ \A k \in AgentKeys : \A i \in 1..Len(team.agent_ok[k]) :
       LET day == DayOf(team.agent_ok[k][i]) * (24 * 60 * 60)
       IN  C25_OkIn(team.agent_ok[k], day, day + 24 * 60 * 60)
             <= team.max_trades_per_agent_per_day
  /\ \A k \in IpKeys : IsSome(team.ip_minute[k]) =>
       C25_OkIn(team.ip_ok[k], Unwrap(team.ip_minute[k]).start,
                Unwrap(team.ip_minute[k]).start + WindowSeconds)
         <= team.max_requests_per_ip_per_minute
  /\ (last.op = "check_agent_limit" /\ last.ret[2]) =>
       (last.ret[3] >= 1 /\ last.ret[3] <= team.max_trades_per_agent_per_day)
  /\ (last.op = "check_ip_limit" /\ last.ret[2]) =>
       (last.ret[3] >= 1 /\ last.ret[3] <= team.max_requests_per_ip_per_minute)

\* a step in which handler t returns from a check
C25_Returns(t) == team.frames[t].pc \in { "agent", "ip" } /\ team'.frames[t].pc = "idle"

\* the window of the key's entry has passed at the instant of the step
C25_WindowPassed(f) ==
  IF f.pc = "agent"
  THEN IsSome(team.agent_daily[f.key]) /\ Unwrap(team.agent_daily[f.key]).start # DayOf(now)
  ELSE IsSome(team.ip_minute[f.key])
       /\ now - Unwrap(team.ip_minute[f.key]).start >= WindowSeconds

\* a check leaves every other key alone, and an Err leaves the key's count alone
C25_KeyOnly(t) ==
  LET f == team.frames[t]
  IN  /\ \A k \in AgentKeys :
           (f.pc = "ip" \/ k # f.key) => team'.agent_daily[k] = team.agent_daily[k]
      /\ \A k \in IpKeys :
           (f.pc = "agent" \/ k # f.key) => team'.ip_minute[k] = team.ip_minute[k]
      /\ ~last'.ret[2] =>
           IF f.pc = "agent"
           THEN C25_Count(team'.agent_daily[f.key]) = C25_Count(team.agent_daily[f.key])
           ELSE C25_Count(team'.ip_minute[f.key]) = C25_Count(team.ip_minute[f.key])

\* C25: for each key at most max checks of one window return Ok, with counts
\* 1..max; a further check returns Err and leaves the count; a check changes
\* no other key; the first check after the window has passed returns Ok(1).
C25_RateLimited ==
  /\ []C25_AtMostMax
  /\ [][\A t \in Callers : C25_Returns(t) =>
          /\ C25_KeyOnly(t)
          /\ C25_WindowPassed(team.frames[t]) => (last'.ret[2] /\ last'.ret[3] = 1)]_vars

\* what holds: the same for checks that take their entry in the window in
\* which they read the clock, under a limit of at least 1
C25_RateLimitedInWindow ==
  /\ [](~team.raced => C25_AtMostMax)
  /\ [][\A t \in Callers : C25_Returns(t) =>
          /\ C25_KeyOnly(t)
          /\ ( /\ C25_WindowPassed(team.frames[t])
               /\ ~team'.raced
               /\ team.max_trades_per_agent_per_day >= 1
               /\ team.max_requests_per_ip_per_minute >= 1 )
             => (last'.ret[2] /\ last'.ret[3] = 1)]_vars

\* more Ok results in one calendar day than the daily limit, with a limit >= 1
C25_OverDailyLimit ==
  /\ team.max_trades_per_agent_per_day >= 1
  /\ \E k \in AgentKeys : Len(team.agent_ok[k]) > team.max_trades_per_agent_per_day
       /\ \A i \in 1..Len(team.agent_ok[k]) : DayOf(team.agent_ok[k][i]) = DayOf(now)

\* the cap of the cycle is half the survival-adjusted cap
C26_Halved == team.max_pct = FracMul(team.adj_max_pct, << 1, 2 >>)

\* C26: when the streak reaches 4 the cap of the loop is halved for the next 3
\* trades that are opened, and once those 3 trades are placed the unhalved
\* survival-adjusted cap is used again.
C26_HalvedForThreeTrades ==
  team.phase = "resolved" =>
    IF team.loss_reduction_trades_left > 0 /\ Len(trades) - team.armed_at < 3
    THEN C26_Halved
    ELSE team.max_pct = team.adj_max_pct

\* what holds: once the streak has reached 4 the cap of every later cycle is
\* halved, and before that no cap is
C26_HalvedFromThenOn ==
  team.phase = "resolved" =>
    IF team.loss_reduction_trades_left > 0 THEN C26_Halved
    ELSE team.max_pct = team.adj_max_pct /\ team.action = "Continue"

\* three trades were placed since the reduction began, the pipeline is about
\* to run for a fourth, and the cap is still half the configured 8%
C26_StillHalved ==
  /\ team.phase = "resolved"
  /\ team.loss_reduction_trades_left = 3
  /\ Len(trades) - team.armed_at = 3
  /\ Len(open_trades) < cfg.max_open_positions
  /\ team.adj_max_pct = cfg.max_position_pct
  /\ team.max_pct = << 1, 25 >>

\* C27: SkipCycle suppresses the opening of trades for the current cycle only:
\* the skipped cycle opens nothing, and from every skipped cycle the loop
\* reaches a cycle in which the team pipeline runs (or the process has ended).
C27_SkipsOneCycle ==
  /\ [][main'.pc = "skip_sleep" => Len(trades') = Len(trades)]_vars
  /\ (main.pc = "skip_sleep") ~> (main.pc \in { "commands", "exited" })

\* what holds: a skipped cycle opens nothing, and with a streak of 3 and no
\* open position the streak stays 3 and the pipeline is never entered again
C27_SkipsForGood ==
  /\ [][main'.pc = "skip_sleep" => Len(trades') = Len(trades)]_vars
  /\ [][(consecutive_losses = 3 /\ Len(open_trades) = 0)
          => /\ consecutive_losses' = 3
             /\ Len(open_trades') = 0
             /\ main'.pc = "commands" => main.pc = "commands"]_vars

\* a skipped cycle with nothing open
C27_SkippedWithNothingOpen ==
  main.pc = "skip_sleep" /\ consecutive_losses = 3 /\ Len(open_trades) = 0

\* the sum of a sequence of amounts
RECURSIVE C28_Sum(_)
C28_Sum(s) == IF Len(s) = 0 THEN 0 ELSE Head(s) + C28_Sum(Tail(s))

\* the fees a record carries: entry gas, exit gas, maker/taker and platform fee
C28_Fees(t) == t.entry_gas_fee + t.exit_gas_fee + t.maker_taker_fee + t.platform_fee

\* the credit of a closed record before the floor at 0
C28_Credit(t) ==
  ReturnUnfloored([ maker_taker_fee |->
                      IF sim.fees_enabled THEN MulPct(t.bet_size, sim.taker_fee_pct) ELSE 0 ],
                  t)

C28_NoFloor == \A i \in 1..Len(trades) : trades[i].status # "Open" => C28_Credit(trades[i]) >= 0

C28_Balanced ==
  balance + C28_Sum([ i \in 1..Len(open_trades) |-> open_trades[i].bet_size ])
    = initial_balance
        + C28_Sum([ i \in 1..Len(trades) |->
                      IF trades[i].status # "Open" THEN trades[i].pnl ELSE 0 ])
        - C28_Sum([ i \in 1..Len(trades) |-> C28_Fees(trades[i]) ])

\* C28: cash + stakes of the open trades = initial balance + pnl of the closed
\* trades - the fees of all trades, as long as no close was floored at 0.
C28_MoneyConserved == C28_NoFloor => C28_Balanced

\* what holds: the same as long as no two trades of the history share an id
C28_MoneyConservedApart ==
  (C28_NoFloor /\ \A i, j \in 1..Len(trades) : trades[i].id = trades[j].id => i = j)
    => C28_Balanced

\* two trades with different stakes, both closed with a credit, ids apart
C28_TwoClosedApart ==
  /\ Len(trades) = 2 /\ Len(open_trades) = 0
  /\ trades[1].id # trades[2].id
  /\ trades[1].bet_size # trades[2].bet_size
  /\ sim.fees_enabled
  /\ \A i \in 1..2 : C28_Credit(trades[i]) > 0 /\ trades[i].pnl # 0
  /\ C28_Balanced

\* the net return of a closed record: its pnl less every fee paid in cash
C29_Net(t) == t.pnl - C28_Fees(t)

C29_NoLossYet == \A i \in 1..Len(trades) : trades[i].status # "Open" => C29_Net(trades[i]) >= 0

\* C29: max_drawdown is 0 in every state in which no trade has been closed with
\* a negative net return, and peak_balance >= the cash balance in every state.
C29_DrawdownFromLossesOnly ==
  /\ C29_NoLossYet => max_drawdown = << 0, 1 >>
  /\ peak_balance >= balance

\* what holds: peak_balance >= the cash balance as long as close_all_positions
\* has closed nothing, and after a resolve_with_prices the drawdown is at least
\* the share of the peak that is not in cash, locked stakes included
C29_PeakUnlessCloseAll ==
  /\ (\A i \in 1..Len(trades) : trades[i].exit_reason # Some("ManualStop"))
       => peak_balance >= balance
  /\ last.op = "resolve" =>
       ~FracLess(max_drawdown[1], max_drawdown[2], peak_balance - balance, peak_balance)

\* a drawdown of 20% with one position of 20 open and no trade closed
C29_DrawdownWithNothingClosed ==
  /\ Len(trades) = 1 /\ Len(open_trades) = 1
  /\ balance = Dollars(80) /\ peak_balance = Dollars(100)
  /\ max_drawdown = << 1, 5 >>

\* the plans the strategist can have made for the trade of a ledger record
C30_PlansOf(t) ==
  { plan(c.dir, c.fv, c.conf, c.size, MarketOf(c.m, c.yp, c.days, c.vol)) :
      c \in { c \in Candidates : /\ c.m = t.market_id
                                 /\ c.dir = t.direction
                                 /\ c.fv = t.fair_value
                                 /\ SidePrice(c.dir, c.yp) = t.raw_entry_price } }

C30_Conviction(t) == \E p \in C30_PlansOf(t) : p.mode = "CONVICTION"

C30_StoredConvictionNeverValved ==
  \A i \in 1..Len(trades) :
    ( /\ trades[i].trade_mode = Some("CONVICTION")
      /\ IsSome(trades[i].judge_confidence)
      /\ Unwrap(trades[i].judge_confidence) >= 75 * (PCT_ONE \div 100)
      /\ trades[i].status # "Open" )
      => trades[i].exit_reason \in { Some("MarketResolved"), Some("ManualStop") }

=============================================================================
